---- MODULE Spec2Model ----
(***************************************************************************)
(* The pooled, transactional storage-access layer of the framework:       *)
(*   DatabaseConnection   (src/src/db/connection.ts 6-106)                 *)
(*   QueryExecutor        (src/src/db/connection.ts 126-325)               *)
(*   TransactionHelper    (src/src/db/transaction.helper.ts 17-234)        *)
(*                                                                         *)
(* Every worker is one asynchronous call of execute, executeTransaction,   *)
(* withTransaction or healthCheck.  An action is one run-to-completion     *)
(* segment of the JavaScript code, i.e. the code between two awaits,       *)
(* together with the completion of the driver call it was waiting for.     *)
(*                                                                         *)
(* The driver (mysql2 ^3.6.5, src/unnamed/part_000 line 29) is the         *)
(* environment.  Its pool is configured at connection.ts 21-25 with        *)
(* connectionLimit, waitForConnections: true and queueLimit: 0: a          *)
(* checkout takes a free connection, else opens one while fewer than       *)
(* connectionLimit exist, else is queued without limit.  Once connect()   *)
(* has succeeded the pool is taken to be able to open its connections;     *)
(* every call on a connection (ping, beginTransaction, execute, commit,    *)
(* rollback) may fail, and a failed call leaves the session as it was.     *)
(*                                                                         *)
(* Spec and FairSpec are the storage layer while the pool is open;         *)
(* CloseSpec adds DatabaseConnection.close.  BuildSpec is the statement    *)
(* builder of TransactionHelper.simpleTransaction, a function of its       *)
(* argument.  AuthSpec is the middleware of src/unnamed/part_010           *)
(* (authenticate, optionalAuth, authorize, generateToken) with             *)
(* jsonwebtoken as its environment.  ErrSpec is globalErrorHandler         *)
(* (src/src/db/connection.ts 350-429) for every kind of value it can be    *)
(* given.  RouteSpec is one request going through the chain of a route of  *)
(* src/unnamed/part_006 (authenticate, authorize, validate, controller,    *)
(* error handler) while a fatal fault may end the process.  UserSpec is    *)
(* UserService (src/unnamed/part_004) over the users table.                *)
(*                                                                         *)
(* ServeSpec is RouteSpec for the routes of part_006 with the steps of the *)
(* chain taken fairly.  MultiSpec is QueryExecutor.executeMultiple next to *)
(* execute.  WrapSpec is an error leaving executeTransaction and reaching  *)
(* globalErrorHandler.  RetrySpec and PageSpec are retry and               *)
(* calculatePagination of src/src/utils/common.utils.ts.  ShutdownSpec is  *)
(* App.shutdown (src/unnamed/part_003 106-137) under SIGTERM and SIGINT.   *)
(* ServiceSpec is what the calls of UserService return.                    *)
(***************************************************************************)
EXTENDS Integers, Sequences, FiniteSets, TLC

\* ---------------------------------------------------------------- bounds
NumWorkers == 2
MaxSize == 1
NumStmts == 2
CallbackStmts == 1
NumCallers == 1
MaxOps == 2
MaxClock == 3
MaxTtl == 2
MaxRules == 2
NumRegs == 2
MaxAttempts == 5
MaxDelay == 2
MaxCount == 5
MaxPage == 3
NumSignals == 2

Workers == 1..NumWorkers
\* one identifier more than the pool may open, so that an extra connection
\* is representable
ConnIds == 1..(MaxSize + 1)
Probe == NumWorkers + 1
\* the calls that run next to a close()
Callers == 1..NumCallers

VARIABLES
  pool,        \* DatabaseConnection.pool: "null" or "open"
  exited,      \* process.exit(1) after a failed connect()
  created,     \* the pool's connections (_allConnections)
  idle,        \* the pool's free connections
  owner,       \* owner[c]: worker that has c checked out, 0 if none
  queue,       \* checkouts waiting for a connection, oldest first
  inTx,        \* inTx[c]: the session of c has an open transaction
  pending,     \* pending[c]: uncommitted effects of the open transaction
  committed,   \* effects committed to storage
  pc,          \* position of each call
  op,          \* which method the worker calls
  conn,        \* the local `connection` of the call, 0 = not obtained
  nstmts,      \* queries.length of an executeTransaction call
  tx,          \* orchestrator state: Idle, Active, Committed, RolledBack
  issued,      \* statements handed to connection.execute, in order
  results,     \* the `results` array: statement index of each entry
  origErr,     \* the `error` caught by the catch block
  rbErr,       \* the `rollbackError` caught by the inner catch block
  rollbackOn,  \* connection on which a rollback() is in flight, 0 = none
  outcome,     \* how the call ended
  log,         \* logger entries written by the call
  checkouts,   \* getConnection() calls that resolved for the worker
  checkins,    \* connection.release() calls made by the worker
  openAtRelease, \* the session had an open transaction when released
  foreignUse,  \* a driver call ran on a connection not checked out by
               \* its caller
  poolEnd,     \* pool.end() of the driver: "no", "ending", "failed", "ended"
  closePc,     \* position of a close() call: "idle" or "end"
  closeResult, \* how the last close() call ended
  calledAfterClose, \* the call was issued after a close() had completed
  operations,  \* simpleTransaction: the `operations` argument
  queries,     \* simpleTransaction: the `queries` array built so far
  stOutcome,   \* simpleTransaction: building, thrown or submitted
  submitted,   \* the queries handed to executeTransaction
  clock,       \* seconds since the start (the clock jsonwebtoken reads)
  token,       \* the last token returned by generateToken, "none" if none
  req,         \* the request in the middleware chain: header and req.user
  nextCalls,   \* the arguments of the next() calls made for the request
  stage,       \* the middleware that handled the request last
  roles,       \* the roles given to authorize(...roles)
  nodeEnv,     \* config.NODE_ENV
  raised,      \* the error and request given to globalErrorHandler
  sent,        \* the responses sent: res.status(..).json(..)
  handlerResult, \* globalErrorHandler: "idle", "returned" or "thrown"
  route,       \* the route that matches the request
  declared,    \* the sources the schema given to validate() declares
  violated,    \* violated[s]: the rules of the schema the request breaks in s
  validationErrors, \* the `validationErrors` array of validate
  handled,     \* the controller of the route has been invoked
  proc,        \* the process: running or exited, exit code, fault log
  users,       \* the rows of the users table
  reg,         \* reg[r]: a createUser call and the answer to its request
  cp,          \* a changePassword call
  login,       \* a login call
  inner,       \* the error raised inside a transaction, before it is wrapped
  rt,          \* a retry(fn, maxAttempts, delay) call
  pg,          \* a calculatePagination call: its arguments and its result
  sd,          \* the shutdown calls started by signals, and the pool.end() calls
  svc          \* the last call of the user service: its arguments and how it ended

poolVars == <<pool, exited, created, idle, owner, queue>>
dbVars == <<inTx, pending, committed>>
callVars == <<op, nstmts>>
txVars == <<tx, issued, results, origErr, rbErr, rollbackOn>>
endVars == <<outcome, log>>
grantVars == <<pc, conn, checkouts, checkins, openAtRelease>>
closeVars == <<poolEnd, closePc, closeResult, calledAfterClose>>
storeVars == <<poolVars, dbVars, callVars, txVars, endVars, grantVars, foreignUse,
               closeVars>>
buildVars == <<operations, queries, stOutcome, submitted>>
authVars == <<clock, token, req, nextCalls, stage, roles>>
errVars == <<nodeEnv, raised, sent, handlerResult>>
routeVars == <<route, declared, violated, validationErrors, handled>>
procVars == <<proc>>
userVars == <<users, reg, cp, login>>
utilVars == <<inner, rt, pg, sd, svc>>
pipeVars == <<routeVars, procVars, userVars, utilVars>>
appVars == <<errVars, pipeVars>>
gateVars == <<buildVars, authVars, appVars>>
vars == <<storeVars, gateVars>>

\* ---------------------------------------------------------------- errors
NoError == [kind |-> "none", type |-> "none", statusCode |-> 0, message |-> <<>>]

\* an Error raised by the driver or by the callback
DriverError(m) == [kind |-> "Error", type |-> "none", statusCode |-> 0, message |-> <<m>>]

\* AppError.database(message)
AppErrorDatabase(msg) ==
  [kind |-> "AppError", type |-> "DATABASE_ERROR", statusCode |-> 500, message |-> msg]

PoolNotInitialized == AppErrorDatabase(<<"Database pool not initialized">>)

\* the Error with which the driver rejects getConnection() on an ended pool
PoolIsClosed == DriverError("Pool is closed.")

\* faulty variant: the wrapper drops the message of the error it caught
QueryExecutionFailedBare(e) == AppErrorDatabase(<<"Query execution failed: ">>)

\* `Query execution failed: ${error.message}`
QueryExecutionFailed(e) == AppErrorDatabase(<<"Query execution failed: ">> \o e.message)

Pending == [status |-> "pending", error |-> NoError, value |-> "none"]
Returned(v) == [status |-> "returned", error |-> NoError, value |-> v]
Thrown(e) == [status |-> "thrown", error |-> e, value |-> "none"]

LogEntry(lvl, m, e, r) == [level |-> lvl, msg |-> m, error |-> e, rollbackError |-> r]

IsTx(o) == o \in {"executeTransaction", "withTransaction"}

\* ------------------------------------------------- errors as thrown values
\* the `code` property of a thrown value: absent, a string or a number
Code(t, v) == [typeof |-> t, value |-> v]
NoCode == Code("undefined", "undefined")

\* the `context` of an AppError: absent, or { errors: [...] }
NoContext == [defined |-> FALSE, errors |-> <<>>]
ErrorsContext(msgs) == [defined |-> TRUE, errors |-> msgs]

\* a value given to next(error): kind is "AppError" for an instance of
\* AppError, "Error" for another Error, "object" for any other object,
\* "null" or "undefined"; hasMessage says that `message` is defined
ThrownValue(kind, name, code, hasMessage, message, type, statusCode, context, hasStack) ==
  [kind |-> kind, name |-> name, code |-> code, hasMessage |-> hasMessage,
   message |-> message, type |-> type, statusCode |-> statusCode,
   context |-> context, hasStack |-> hasStack]

\* the request as the handler reads it: req.originalUrl and req.method
Inbound(path, method) == [originalUrl |-> path, method |-> method]
NoInbound == Inbound("none", "none")
NoThrown == ThrownValue("none", "none", NoCode, FALSE, <<>>, "none", 0, NoContext, FALSE)
NoRaised == [error |-> NoThrown, req |-> NoInbound]

\* the three parts of a request that a schema can declare, in the order
\* validate looks at them
Sources == {"body", "params", "query"}
SourceOrder == <<"body", "params", "query">>
Rules == 1..MaxRules

\* the process: process.exit(code) ends it
Process(ended, code, entries) == [exited |-> ended, exitCode |-> code, log |-> entries]
Running == Process(FALSE, 0, <<>>)

\* bcrypt: the hash of a password, and the row the migration inserts
\* (src/migrations/create_users_table.sql 25-39)
Hash(password) == <<"bcrypt", password>>
Row(id, email, password, role, isActive) ==
  [id |-> id, email |-> email, password |-> password, firstName |-> "first",
   lastName |-> "last", role |-> role, isActive |-> isActive]
AdminRow == Row(1, "admin@example.com", Hash("admin123"), "1", "1")

\* the calls of the user service
Regs == 1..NumRegs
NoAnswer == [status |-> 0, type |-> "none", message |-> <<>>]
NoRegistration == [pc |-> "idle", email |-> "none", answer |-> NoAnswer, inserted |-> FALSE]
NoChangePassword ==
  [pc |-> "idle", id |-> 0, currentPassword |-> "none", newPassword |-> "none",
   read |-> Hash("none"), outcome |-> Pending]
NoLogin ==
  [pc |-> "idle", email |-> "none", password |-> "none", afterChange |-> FALSE,
   outcome |-> Pending]

\* a retry call: the arguments, the loop variable `attempt`, the number of
\* calls of fn made, the sleeps asked for, and how the call ended; the
\* k-th call of fn returns the value k or throws the error k
NoRetry ==
  [pc |-> "idle", maxAttempts |-> 0, delay |-> 0, attempt |-> 0, calls |-> 0,
   waits |-> <<>>, status |-> "pending", value |-> 0, error |-> 0]

\* an optional number: <<>> when the property is absent
Absent == <<>>
NoPagination ==
  [done |-> FALSE, totalCount |-> 0, page |-> Absent, limit |-> Absent, maxLimit |-> Absent,
   result |-> [page |-> 0, limit |-> 0, offset |-> 0, totalPages |-> 0,
               hasNext |-> FALSE, hasPrevious |-> FALSE]]

\* the shutdown calls: where each is, the signal that started it, and the
\* number of times pool.end() has been called
Signals == 1..NumSignals
NoShutdown ==
  [pc |-> [i \in Signals |-> "idle"], signal |-> [i \in Signals |-> "none"], ends |-> 0]

\* no call of the user service has been made
NoService == [op |-> "none", email |-> "none", password |-> "none", outcome |-> Pending]

\* ---------------------------------------------------------------- Init
\* no token; req.user not set; no Authorization header; no request
NoToken == [format |-> "none", payload |-> "none", iat |-> 0, exp |-> 0, sig |-> <<>>]
NoUser == [set |-> FALSE, id |-> "undefined", email |-> "undefined", role |-> "undefined"]
NoHeader == [scheme |-> "undefined", token |-> NoToken]
NoRequest == [authorization |-> NoHeader, user |-> NoUser]

\* the storage layer after construction: no pool, no call
StoreInit ==
  /\ pool = "null"
  /\ exited = FALSE
  /\ created = {}
  /\ idle = {}
  /\ owner = [c \in ConnIds |-> 0]
  /\ queue = <<>>
  /\ inTx = [c \in ConnIds |-> FALSE]
  /\ pending = [c \in ConnIds |-> {}]
  /\ committed = {}
  /\ pc = [w \in Workers |-> "idle"]
  /\ op = [w \in Workers |-> "none"]
  /\ conn = [w \in Workers |-> 0]
  /\ nstmts = [w \in Workers |-> 0]
  /\ tx = [w \in Workers |-> "Idle"]
  /\ issued = [w \in Workers |-> <<>>]
  /\ results = [w \in Workers |-> <<>>]
  /\ origErr = [w \in Workers |-> NoError]
  /\ rbErr = [w \in Workers |-> NoError]
  /\ rollbackOn = [w \in Workers |-> 0]
  /\ outcome = [w \in Workers |-> Pending]
  /\ log = [w \in Workers |-> <<>>]
  /\ checkouts = [w \in Workers |-> 0]
  /\ checkins = [w \in Workers |-> 0]
  /\ openAtRelease = [w \in Workers |-> FALSE]
  /\ foreignUse = FALSE
  /\ poolEnd = "no"
  /\ closePc = "idle"
  /\ closeResult = "none"
  /\ calledAfterClose = [w \in Workers |-> FALSE]

\* simpleTransaction has not been called
BuildIdle ==
  /\ operations = <<>>
  /\ queries = <<>>
  /\ stOutcome = Pending
  /\ submitted = "none"

\* no token has been issued and no request received
AuthIdle ==
  /\ clock = 0
  /\ token = NoToken
  /\ req = NoRequest
  /\ nextCalls = <<>>
  /\ stage = "none"
  /\ roles = {}

\* no error has reached globalErrorHandler
ErrIdle ==
  /\ raised = NoRaised
  /\ sent = <<>>
  /\ handlerResult = "idle"

\* no request has been routed
RouteIdle ==
  /\ route = "none"
  /\ declared = {}
  /\ violated = [s \in Sources |-> {}]
  /\ validationErrors = <<>>
  /\ handled = FALSE

\* the process runs
ProcIdle == proc = Running

\* the users table after the migration; no call of the user service
UserIdle ==
  /\ users = {AdminRow}
  /\ reg = [r \in Regs |-> NoRegistration]
  /\ cp = NoChangePassword
  /\ login = NoLogin

\* no call of the transaction wrappers or of the utilities
UtilIdle ==
  /\ inner = NoThrown
  /\ rt = NoRetry
  /\ pg = NoPagination
  /\ sd = NoShutdown
  /\ svc = NoService

\* `NODE_ENV: process.env.NODE_ENV || 'development'`
AppIdle ==
  nodeEnv = "development" /\ ErrIdle /\ RouteIdle /\ ProcIdle /\ UserIdle /\ UtilIdle

Init == StoreInit /\ BuildIdle /\ AuthIdle /\ AppIdle

\* ------------------------------------------------------- the pool (driver)
\* faulty variant: the limit test is off by one
SaturatedOffByOne(n) == n > MaxSize

\* the pool opens no connection once connectionLimit exist
Saturated(n) == n >= MaxSize

\* faulty variant: a checkout is given any connection of the pool, free or not
FreeConnectionsAny == created

\* the connections a checkout may be given at once
FreeConnections == idle

NewConnId == CHOOSE c \in ConnIds : c \notin created /\ \A d \in ConnIds \ created : c <= d

\* the code that runs when the awaited getConnection() resolves
AfterCheckout(w) == "acquired"

\* the call ends without releasing anything
Leave(w) ==
  /\ pc' = [pc EXCEPT ![w] = "done"]
  /\ conn' = [conn EXCEPT ![w] = 0]
  /\ UNCHANGED <<checkouts, checkins, openAtRelease, poolVars>>

\* faulty variant: the finally block does not release the connection
ReleaseSkipped(w, c) == Leave(w)

\* connection.release(): the connection goes to the oldest queued checkout,
\* else back to the free list.  The releasing call ends with the finally
\* block, and its local `connection` with it.
Release(w, c) ==
  /\ checkins' = [checkins EXCEPT ![w] = @ + 1]
  /\ openAtRelease' = [openAtRelease EXCEPT ![w] = inTx'[c]]
  /\ IF queue # <<>>
       THEN LET v == Head(queue) IN
            /\ queue' = Tail(queue)
            /\ owner' = [owner EXCEPT ![c] = v]
            /\ idle' = idle
            /\ conn' = [conn EXCEPT ![w] = 0, ![v] = c]
            /\ checkouts' = [checkouts EXCEPT ![v] = @ + 1]
            /\ pc' = [pc EXCEPT ![w] = "done", ![v] = AfterCheckout(v)]
       ELSE /\ queue' = queue
            /\ owner' = [owner EXCEPT ![c] = 0]
            /\ idle' = idle \cup {c}
            /\ conn' = [conn EXCEPT ![w] = 0]
            /\ checkouts' = checkouts
            /\ pc' = [pc EXCEPT ![w] = "done"]
  /\ UNCHANGED <<pool, exited, created>>

\* a driver call of worker w runs on the connection its local variable names
UseConnection(w) == foreignUse' = (foreignUse \/ owner[conn[w]] # w)

\* DatabaseConnection.connect() as called once by App.start(): create the
\* pool, probe it with getConnection / ping / release.  When the probe
\* fails connect throws and App.start() ends the process; a failed ping
\* leaves the probe connection checked out.
Connect ==
  /\ pool = "null" /\ ~exited /\ poolEnd = "no"
  /\ pool' = "open"
  /\ \/ /\ created' = {1} /\ idle' = {1} /\ owner' = owner /\ exited' = FALSE
     \/ /\ created' = {} /\ idle' = {} /\ owner' = owner /\ exited' = TRUE
     \/ /\ created' = {1} /\ idle' = {}
        /\ owner' = [owner EXCEPT ![1] = Probe] /\ exited' = TRUE
  /\ UNCHANGED <<queue, dbVars, callVars, txVars, endVars, grantVars, foreignUse>>
  /\ UNCHANGED <<closeVars, gateVars>>

\* pool.getConnection(): resolve with a free connection, else open one while
\* the limit allows, else wait in the queue
GetConnection(w) ==
  /\ pc[w] = "acquire" /\ ~exited /\ poolEnd = "no"
  /\ IF FreeConnections # {}
       THEN \E c \in FreeConnections :
              /\ idle' = idle \ {c}
              /\ owner' = [owner EXCEPT ![c] = w]
              /\ conn' = [conn EXCEPT ![w] = c]
              /\ checkouts' = [checkouts EXCEPT ![w] = @ + 1]
              /\ pc' = [pc EXCEPT ![w] = AfterCheckout(w)]
              /\ UNCHANGED <<created, queue>>
       ELSE IF ~Saturated(Cardinality(created))
         THEN /\ created' = created \cup {NewConnId}
              /\ owner' = [owner EXCEPT ![NewConnId] = w]
              /\ conn' = [conn EXCEPT ![w] = NewConnId]
              /\ checkouts' = [checkouts EXCEPT ![w] = @ + 1]
              /\ pc' = [pc EXCEPT ![w] = AfterCheckout(w)]
              /\ UNCHANGED <<idle, queue>>
         ELSE /\ queue' = Append(queue, w)
              /\ pc' = [pc EXCEPT ![w] = "waiting"]
              /\ UNCHANGED <<created, idle, owner, conn, checkouts>>
  /\ UNCHANGED <<pool, exited, dbVars, callVars, txVars, endVars, checkins,
                 openAtRelease, foreignUse>>
  /\ UNCHANGED <<closeVars, gateVars>>

\* ------------------------------------------------- QueryExecutor.execute
\* a statement run outside a transaction is committed at once; on a session
\* whose transaction is still open it joins that transaction
RunStatement(c, e) ==
  IF inTx[c]
    THEN /\ pending' = [pending EXCEPT ![c] = @ \cup {e}]
         /\ committed' = committed
    ELSE /\ committed' = committed \cup {e}
         /\ pending' = pending

\* execute(), up to `await pool.getConnection()`
ExecuteCall(w) ==
  /\ pc[w] = "idle" /\ ~exited
  /\ op' = [op EXCEPT ![w] = "execute"]
  /\ IF pool = "null"
       THEN /\ origErr' = [origErr EXCEPT ![w] = PoolNotInitialized]
            /\ log' = [log EXCEPT ![w] = Append(@,
                 LogEntry("error", <<"Query execution failed">>, PoolNotInitialized, NoError))]
            /\ outcome' = [outcome EXCEPT ![w] = Thrown(QueryExecutionFailed(PoolNotInitialized))]
            /\ Leave(w)
       ELSE /\ pc' = [pc EXCEPT ![w] = "acquire"]
            /\ UNCHANGED <<origErr, log, outcome, conn, checkouts, checkins,
                           openAtRelease, poolVars>>
  /\ UNCHANGED <<dbVars, nstmts, tx, issued, results, rbErr, rollbackOn, foreignUse>>
  /\ calledAfterClose' = [calledAfterClose EXCEPT ![w] = (poolEnd = "ended")]
  /\ UNCHANGED <<poolEnd, closePc, closeResult, gateVars>>

\* getConnection() resolved: log, then `await connection.execute(query, params)`
ExecuteRun(w) ==
  /\ pc[w] = "acquired" /\ op[w] = "execute" /\ ~exited
  /\ pc' = [pc EXCEPT ![w] = "stmt"]
  /\ issued' = [issued EXCEPT ![w] = <<1>>]
  /\ UNCHANGED <<poolVars, dbVars, callVars, tx, results, origErr, rbErr, rollbackOn,
                 endVars, conn, checkouts, checkins, openAtRelease, foreignUse>>
  /\ UNCHANGED <<closeVars, gateVars>>

\* connection.execute() settled: return the result or wrap the error, and
\* release in the finally block
ExecuteDone(w) ==
  /\ pc[w] = "stmt" /\ op[w] = "execute" /\ ~exited
  /\ UseConnection(w)
  /\ \/ /\ RunStatement(conn[w], <<w, 1>>)
        /\ results' = [results EXCEPT ![w] = <<1>>]
        /\ outcome' = [outcome EXCEPT ![w] = Returned("rows")]
        /\ UNCHANGED <<origErr, log>>
     \/ /\ LET e == DriverError("E_stmt") IN
           /\ origErr' = [origErr EXCEPT ![w] = e]
           /\ log' = [log EXCEPT ![w] = Append(@,
                LogEntry("error", <<"Query execution failed">>, e, NoError))]
           /\ outcome' = [outcome EXCEPT ![w] = Thrown(QueryExecutionFailed(e))]
        /\ UNCHANGED <<pending, committed, results>>
  /\ inTx' = inTx
  /\ IF conn[w] # 0 THEN Release(w, conn[w]) ELSE Leave(w)
  /\ UNCHANGED <<callVars, tx, issued, rbErr, rollbackOn>>
  /\ UNCHANGED <<closeVars, gateVars>>

\* ----------------------------------------- QueryExecutor.executeMultiple
\* connection.release() in the finally block of an execute that was called
\* by executeMultiple: the caller goes on at `after`
ReleaseThen(w, c, after) ==
  /\ checkins' = [checkins EXCEPT ![w] = @ + 1]
  /\ openAtRelease' = [openAtRelease EXCEPT ![w] = inTx'[c]]
  /\ IF queue # <<>>
       THEN LET v == Head(queue) IN
            /\ queue' = Tail(queue)
            /\ owner' = [owner EXCEPT ![c] = v]
            /\ idle' = idle
            /\ conn' = [conn EXCEPT ![w] = 0, ![v] = c]
            /\ checkouts' = [checkouts EXCEPT ![v] = @ + 1]
            /\ pc' = [pc EXCEPT ![w] = after, ![v] = AfterCheckout(v)]
       ELSE /\ queue' = queue
            /\ owner' = [owner EXCEPT ![c] = 0]
            /\ idle' = idle \cup {c}
            /\ conn' = [conn EXCEPT ![w] = 0]
            /\ checkouts' = checkouts
            /\ pc' = [pc EXCEPT ![w] = after]
  /\ UNCHANGED <<pool, exited, created>>

\* faulty variant: the loop catches the error of a query and goes on
MultiAfterIgnoringErrors(ok, i, n) == IF i < n THEN "next" ELSE "return"

\* `for (...) { const result = await this.execute(...); results.push(result) }
\* return results`: what follows query i of n; the error of execute is not
\* caught
MultiAfter(ok, i, n) == IF ~ok THEN "throw" ELSE IF i < n THEN "next" ELSE "return"

\* executeMultiple(queries), up to `await pool.getConnection()` of the
\* first execute; with no query the loop is not entered
ExecuteMultipleCall(w) ==
  /\ pc[w] = "idle" /\ ~exited
  /\ op' = [op EXCEPT ![w] = "executeMultiple"]
  /\ \E n \in 0..NumStmts :
       /\ nstmts' = [nstmts EXCEPT ![w] = n]
       /\ IF n = 0
            THEN /\ outcome' = [outcome EXCEPT ![w] = Returned("results")]
                 /\ Leave(w)
                 /\ UNCHANGED <<origErr, log>>
          ELSE IF pool = "null"
            THEN /\ origErr' = [origErr EXCEPT ![w] = PoolNotInitialized]
                 /\ log' = [log EXCEPT ![w] = Append(@,
                      LogEntry("error", <<"Query execution failed">>, PoolNotInitialized, NoError))]
                 /\ outcome' = [outcome EXCEPT ![w] = Thrown(QueryExecutionFailed(PoolNotInitialized))]
                 /\ Leave(w)
          ELSE /\ pc' = [pc EXCEPT ![w] = "acquire"]
               /\ UNCHANGED <<origErr, log, outcome, conn, checkouts, checkins,
                              openAtRelease, poolVars>>
  /\ UNCHANGED <<dbVars, tx, issued, results, rbErr, rollbackOn, foreignUse>>
  /\ UNCHANGED <<closeVars, gateVars>>

\* getConnection() of the execute of the next query resolved:
\* `await connection.execute(query, params)`
MultiRun(w) ==
  /\ pc[w] = "acquired" /\ op[w] = "executeMultiple" /\ ~exited
  /\ pc' = [pc EXCEPT ![w] = "stmt"]
  /\ issued' = [issued EXCEPT ![w] = Append(@, Len(@) + 1)]
  /\ UNCHANGED <<poolVars, dbVars, callVars, tx, results, origErr, rbErr, rollbackOn,
                 endVars, conn, checkouts, checkins, openAtRelease, foreignUse>>
  /\ UNCHANGED <<closeVars, gateVars>>

\* connection.execute() of query i settled: execute releases in its finally
\* block and returns or throws; the loop pushes the result and goes to the
\* next query, returns, or lets the error leave
MultiDone(w) ==
  /\ pc[w] = "stmt" /\ op[w] = "executeMultiple" /\ ~exited
  /\ UseConnection(w)
  /\ \E ok \in BOOLEAN :
       LET i == Len(issued[w])
           e == DriverError("E_stmt")
           after == MultiAfter(ok, i, nstmts[w])
       IN /\ IF ok
               THEN /\ RunStatement(conn[w], <<w, i>>)
                    /\ results' = [results EXCEPT ![w] = Append(@, i)]
                    /\ UNCHANGED <<origErr, log>>
               ELSE /\ origErr' = [origErr EXCEPT ![w] = e]
                    /\ log' = [log EXCEPT ![w] = Append(@,
                         LogEntry("error", <<"Query execution failed">>, e, NoError))]
                    /\ UNCHANGED <<pending, committed, results>>
          /\ outcome' = [outcome EXCEPT ![w] =
               IF after = "throw" THEN Thrown(QueryExecutionFailed(e))
               ELSE IF after = "return" THEN Returned("results")
               ELSE @]
          /\ inTx' = inTx
          /\ ReleaseThen(w, conn[w], IF after = "next" THEN "acquire" ELSE "done")
  /\ UNCHANGED <<callVars, tx, issued, rbErr, rollbackOn>>
  /\ UNCHANGED <<closeVars, gateVars>>

\* ------------------------------------------------------ TransactionHelper
\* faulty variant: the caught error is thrown again as it is
TransactionFailedRaw(e) == e

\* faulty variant: an AppError keeps its type and status
TransactionFailedKeepingKind(e) ==
  IF e.kind = "AppError"
    THEN [kind |-> "AppError", type |-> e.type, statusCode |-> e.statusCode,
          message |-> <<"Transaction failed: ">> \o e.message]
    ELSE AppErrorDatabase(<<"Transaction failed: ">> \o e.message)

\* `Transaction failed: ${error.message}`
TransactionFailed(e) == AppErrorDatabase(<<"Transaction failed: ">> \o e.message)

\* faulty variant: the error caught last is the one reported
PropagatedLast(e, r) == IF r # NoError THEN r ELSE e

\* the error whose message the thrown AppError carries: the one caught by
\* the outer catch block, whatever rollback did
Propagated(e, r) == e

\* withTransaction logs the same entries with a "(callback mode)" suffix
Msg(w, m) == IF op[w] = "withTransaction" THEN <<m, "(callback mode)">> ELSE <<m>>

\* faulty variant: the loop steps over an element
NextStmtSkip(i) == i + 2

\* the for-loop moves to the next element of `queries`
NextStmt(i) == i + 1

\* faulty variant: results.unshift(...)
PushResultFront(rs, i) == <<i>> \o rs

\* results.push(...)
PushResult(rs, i) == Append(rs, i)

LastIssued(w) == issued[w][Len(issued[w])]

\* `connection.rollback()` goes to the connection of this call
RollbackTarget(w) == conn[w]

\* entering `catch (error)`: the rollback is issued
Catch(w, e) ==
  /\ origErr' = [origErr EXCEPT ![w] = e]
  /\ tx' = [tx EXCEPT ![w] = "RolledBack"]
  /\ rollbackOn' = [rollbackOn EXCEPT ![w] = RollbackTarget(w)]
  /\ pc' = [pc EXCEPT ![w] = "rollback"]

\* the session begins a transaction; one still open on it is committed
\* first (START TRANSACTION commits implicitly)
SessionBegin(c) ==
  /\ committed' = committed \cup pending[c]
  /\ pending' = [pending EXCEPT ![c] = {}]
  /\ inTx' = [inTx EXCEPT ![c] = TRUE]

SessionCommit(c) ==
  /\ committed' = committed \cup pending[c]
  /\ pending' = [pending EXCEPT ![c] = {}]
  /\ inTx' = [inTx EXCEPT ![c] = FALSE]

SessionRollback(c) ==
  /\ committed' = committed
  /\ pending' = [pending EXCEPT ![c] = {}]
  /\ inTx' = [inTx EXCEPT ![c] = FALSE]

\* executeTransaction(queries) with NumStmts queries, up to
\* `await pool.getConnection()`; getPool() stands outside the try block
ExecuteTransactionCall(w) ==
  /\ pc[w] = "idle" /\ ~exited
  /\ op' = [op EXCEPT ![w] = "executeTransaction"]
  /\ nstmts' = [nstmts EXCEPT ![w] = NumStmts]
  /\ IF pool = "null"
       THEN /\ outcome' = [outcome EXCEPT ![w] = Thrown(PoolNotInitialized)]
            /\ Leave(w)
       ELSE /\ pc' = [pc EXCEPT ![w] = "acquire"]
            /\ UNCHANGED <<outcome, conn, checkouts, checkins, openAtRelease, poolVars>>
  /\ UNCHANGED <<dbVars, txVars, log, foreignUse>>
  /\ calledAfterClose' = [calledAfterClose EXCEPT ![w] = (poolEnd = "ended")]
  /\ UNCHANGED <<poolEnd, closePc, closeResult, gateVars>>

\* withTransaction(callback), up to `await pool.getConnection()`
WithTransactionCall(w) ==
  /\ pc[w] = "idle" /\ ~exited
  /\ op' = [op EXCEPT ![w] = "withTransaction"]
  /\ IF pool = "null"
       THEN /\ outcome' = [outcome EXCEPT ![w] = Thrown(PoolNotInitialized)]
            /\ Leave(w)
       ELSE /\ pc' = [pc EXCEPT ![w] = "acquire"]
            /\ UNCHANGED <<outcome, conn, checkouts, checkins, openAtRelease, poolVars>>
  /\ UNCHANGED <<dbVars, nstmts, txVars, log, foreignUse>>
  /\ calledAfterClose' = [calledAfterClose EXCEPT ![w] = (poolEnd = "ended")]
  /\ UNCHANGED <<poolEnd, closePc, closeResult, gateVars>>

\* getConnection() resolved: `await connection.beginTransaction()`
TxBegin(w) ==
  /\ pc[w] = "acquired" /\ IsTx(op[w]) /\ ~exited
  /\ pc' = [pc EXCEPT ![w] = "begin"]
  /\ tx' = [tx EXCEPT ![w] = "Active"]
  /\ UNCHANGED <<poolVars, dbVars, callVars, issued, results, origErr, rbErr, rollbackOn,
                 endVars, conn, checkouts, checkins, openAtRelease, foreignUse>>
  /\ UNCHANGED <<closeVars, gateVars>>

\* beginTransaction() settled: log, then the first statement (or the
\* callback, or commit when `queries` is empty), else the catch block
BeginDone(w) ==
  /\ pc[w] = "begin" /\ ~exited
  /\ UseConnection(w)
  /\ \/ /\ SessionBegin(conn[w])
        /\ log' = [log EXCEPT ![w] = Append(@,
             LogEntry("info", Msg(w, "Transaction started"), NoError, NoError))]
        /\ IF op[w] = "withTransaction"
             THEN /\ pc' = [pc EXCEPT ![w] = "callback"]
                  /\ issued' = issued
             ELSE IF nstmts[w] = 0
               THEN /\ pc' = [pc EXCEPT ![w] = "commit"]
                    /\ issued' = issued
               ELSE /\ pc' = [pc EXCEPT ![w] = "stmt"]
                    /\ issued' = [issued EXCEPT ![w] = <<1>>]
        /\ UNCHANGED <<tx, origErr, rollbackOn>>
     \/ /\ Catch(w, DriverError("E_begin"))
        /\ UNCHANGED <<dbVars, log, issued>>
  /\ UNCHANGED <<poolVars, callVars, results, rbErr, outcome, conn, checkouts,
                 checkins, openAtRelease>>
  /\ UNCHANGED <<closeVars, gateVars>>

\* connection.execute() of the current statement settled: push its result
\* and go on with the next statement, or commit after the last one; a
\* failure goes to the catch block
TxStmtDone(w) ==
  /\ pc[w] = "stmt" /\ op[w] = "executeTransaction" /\ ~exited
  /\ UseConnection(w)
  /\ LET i == LastIssued(w) IN
     \/ /\ RunStatement(conn[w], <<w, i>>)
        /\ results' = [results EXCEPT ![w] = PushResult(@, i)]
        /\ IF NextStmt(i) <= nstmts[w]
             THEN /\ issued' = [issued EXCEPT ![w] = Append(@, NextStmt(i))]
                  /\ pc' = pc
             ELSE /\ issued' = issued
                  /\ pc' = [pc EXCEPT ![w] = "commit"]
        /\ UNCHANGED <<tx, origErr, rollbackOn>>
     \/ /\ Catch(w, DriverError("E_stmt"))
        /\ UNCHANGED <<pending, committed, results, issued>>
  /\ UNCHANGED <<poolVars, inTx, callVars, rbErr, endVars, conn, checkouts,
                 checkins, openAtRelease>>
  /\ UNCHANGED <<closeVars, gateVars>>

\* the callback runs one more statement (of at most CallbackStmts) on the
\* connection it was given
CallbackStmt(w) ==
  /\ pc[w] = "callback" /\ ~exited
  /\ Len(issued[w]) < CallbackStmts
  /\ UseConnection(w)
  /\ LET i == Len(issued[w]) + 1 IN
     /\ issued' = [issued EXCEPT ![w] = Append(@, i)]
     /\ \/ /\ RunStatement(conn[w], <<w, i>>)
           /\ results' = [results EXCEPT ![w] = PushResult(@, i)]
           /\ UNCHANGED <<tx, origErr, rollbackOn, pc>>
        \/ /\ Catch(w, DriverError("E_stmt"))
           /\ UNCHANGED <<pending, committed, results>>
  /\ UNCHANGED <<poolVars, inTx, callVars, rbErr, endVars, conn, checkouts,
                 checkins, openAtRelease>>
  /\ UNCHANGED <<closeVars, gateVars>>

\* the callback throws an error of its own
CallbackThrow(w) ==
  /\ pc[w] = "callback" /\ ~exited
  /\ Catch(w, DriverError("E_callback"))
  /\ UNCHANGED <<poolVars, dbVars, callVars, issued, results, rbErr, endVars, conn,
                 checkouts, checkins, openAtRelease, foreignUse>>
  /\ UNCHANGED <<closeVars, gateVars>>

\* the callback returns: `await connection.commit()`
CallbackReturn(w) ==
  /\ pc[w] = "callback" /\ ~exited
  /\ pc' = [pc EXCEPT ![w] = "commit"]
  /\ UNCHANGED <<poolVars, dbVars, callVars, txVars, endVars, conn, checkouts,
                 checkins, openAtRelease, foreignUse>>
  /\ UNCHANGED <<closeVars, gateVars>>

\* commit() settled: log, return and release in the finally block, else the
\* catch block
CommitDone(w) ==
  /\ pc[w] = "commit" /\ ~exited
  /\ UseConnection(w)
  /\ \/ /\ SessionCommit(conn[w])
        /\ tx' = [tx EXCEPT ![w] = "Committed"]
        /\ log' = [log EXCEPT ![w] = Append(@,
             LogEntry("info", Msg(w, "Transaction committed successfully"), NoError, NoError))]
        /\ outcome' = [outcome EXCEPT ![w] = Returned("results")]
        /\ Release(w, conn[w])
        /\ UNCHANGED <<origErr, rollbackOn>>
     \/ /\ Catch(w, DriverError("E_commit"))
        /\ UNCHANGED <<dbVars, poolVars, endVars, conn, checkouts, checkins, openAtRelease>>
  /\ UNCHANGED <<callVars, issued, results, rbErr>>
  /\ UNCHANGED <<closeVars, gateVars>>

\* rollback() settled: log the rollback (or its failure), log the failed
\* transaction, throw the wrapped original error, release in the finally
\* block
RollbackDone(w) ==
  /\ pc[w] = "rollback" /\ ~exited
  /\ UseConnection(w)
  /\ \E r \in {NoError, DriverError("E_rollback")} :
       /\ rbErr' = [rbErr EXCEPT ![w] = r]
       /\ IF r = NoError
            THEN /\ SessionRollback(rollbackOn[w])
                 /\ log' = [log EXCEPT ![w] = @ \o
                      << LogEntry("warn", Msg(w, "Transaction rolled back due to error"), NoError, NoError),
                         LogEntry("error", Msg(w, "Transaction failed"), origErr[w], NoError) >>]
            ELSE /\ UNCHANGED dbVars
                 /\ log' = [log EXCEPT ![w] = @ \o
                      << LogEntry("error", Msg(w, "Failed to rollback transaction"), origErr[w], r),
                         LogEntry("error", Msg(w, "Transaction failed"), origErr[w], NoError) >>]
       /\ outcome' = [outcome EXCEPT ![w] = Thrown(TransactionFailed(Propagated(origErr[w], r)))]
  /\ rollbackOn' = [rollbackOn EXCEPT ![w] = 0]
  /\ Release(w, conn[w])
  /\ UNCHANGED <<callVars, tx, issued, results, origErr>>
  /\ UNCHANGED <<closeVars, gateVars>>

\* ------------------------------------------- DatabaseConnection.healthCheck
\* faulty variant: the route answers 200 whatever the database reports
HealthResponseAlwaysOk(dbHealth) == [statusCode |-> 200, status |-> "healthy"]

\* GET /health: 503 when dbHealth.status is 'unhealthy', else res.json (200)
HealthResponse(dbHealth) ==
  IF dbHealth = "unhealthy"
    THEN [statusCode |-> 503, status |-> "unhealthy"]
    ELSE [statusCode |-> 200, status |-> "healthy"]

\* healthCheck() -> checkConnection(), up to `await this.pool.getConnection()`
HealthCheckCall(w) ==
  /\ pc[w] = "idle" /\ ~exited
  /\ op' = [op EXCEPT ![w] = "healthCheck"]
  /\ IF pool = "null"
       THEN /\ outcome' = [outcome EXCEPT ![w] = Returned("unhealthy")]
            /\ Leave(w)
       ELSE /\ pc' = [pc EXCEPT ![w] = "acquire"]
            /\ UNCHANGED <<outcome, conn, checkouts, checkins, openAtRelease, poolVars>>
  /\ UNCHANGED <<dbVars, nstmts, txVars, log, foreignUse>>
  /\ calledAfterClose' = [calledAfterClose EXCEPT ![w] = (poolEnd = "ended")]
  /\ UNCHANGED <<poolEnd, closePc, closeResult, gateVars>>

\* getConnection() resolved: `await connection.ping()`
HealthPing(w) ==
  /\ pc[w] = "acquired" /\ op[w] = "healthCheck" /\ ~exited
  /\ pc' = [pc EXCEPT ![w] = "ping"]
  /\ UNCHANGED <<poolVars, dbVars, callVars, txVars, endVars, conn, checkouts,
                 checkins, openAtRelease, foreignUse>>
  /\ UNCHANGED <<closeVars, gateVars>>

\* ping() settled: release and report healthy; a failed ping goes to the
\* catch block, which returns false
PingDone(w) ==
  /\ pc[w] = "ping" /\ ~exited
  /\ UseConnection(w)
  /\ \/ /\ outcome' = [outcome EXCEPT ![w] = Returned("healthy")]
        /\ inTx' = inTx
        /\ Release(w, conn[w])
        /\ log' = log
     \/ /\ log' = [log EXCEPT ![w] = Append(@,
             LogEntry("error", <<"Database connection check failed:">>, DriverError("E_ping"), NoError))]
        /\ outcome' = [outcome EXCEPT ![w] = Returned("unhealthy")]
        /\ inTx' = inTx
        /\ Leave(w)
  /\ UNCHANGED <<pending, committed, callVars, txVars>>
  /\ UNCHANGED <<closeVars, gateVars>>

\* ----------------------------------------------- DatabaseConnection.close
\* getConnection() on a pool whose end() has been called is rejected by the
\* driver.  execute catches and wraps the error (no connection to release);
\* executeTransaction and withTransaction call getConnection() outside
\* their try block, so the error leaves as it is; checkConnection catches
\* it and returns false.
GetConnectionRejected(w) ==
  /\ pc[w] = "acquire" /\ ~exited /\ poolEnd # "no"
  /\ IF op[w] = "execute"
       THEN /\ origErr' = [origErr EXCEPT ![w] = PoolIsClosed]
            /\ log' = [log EXCEPT ![w] = Append(@,
                 LogEntry("error", <<"Query execution failed">>, PoolIsClosed, NoError))]
            /\ outcome' = [outcome EXCEPT ![w] = Thrown(QueryExecutionFailed(PoolIsClosed))]
       ELSE IF op[w] = "healthCheck"
         THEN /\ log' = [log EXCEPT ![w] = Append(@,
                   LogEntry("error", <<"Database connection check failed:">>, PoolIsClosed, NoError))]
              /\ outcome' = [outcome EXCEPT ![w] = Returned("unhealthy")]
              /\ origErr' = origErr
         ELSE /\ outcome' = [outcome EXCEPT ![w] = Thrown(PoolIsClosed)]
              /\ UNCHANGED <<origErr, log>>
  /\ Leave(w)
  /\ UNCHANGED <<dbVars, callVars, tx, issued, results, rbErr, rollbackOn, foreignUse,
                 closeVars, gateVars>>

\* close(), up to `await this.pool.end()`; with no pool it does nothing
CloseCall ==
  /\ closePc = "idle" /\ ~exited
  /\ IF pool = "null"
       THEN /\ closeResult' = "nothing"
            /\ UNCHANGED <<poolEnd, closePc>>
       ELSE /\ poolEnd' = "ending"
            /\ closePc' = "end"
            /\ closeResult' = "none"
  /\ calledAfterClose' = calledAfterClose
  /\ UNCHANGED <<poolVars, dbVars, callVars, txVars, endVars, grantVars, foreignUse,
                 gateVars>>

\* faulty variant: close() keeps the ended pool
KeptPool == "open"

\* `this.pool = null`
ForgottenPool == "null"

\* pool.end() settled: forget the pool and log, or log the error and throw
\* AppError.database('Failed to close database connection')
CloseDone ==
  /\ closePc = "end" /\ ~exited
  /\ closePc' = "idle"
  /\ \/ /\ pool' = ForgottenPool
        /\ poolEnd' = "ended"
        /\ closeResult' = "closed"
     \/ /\ pool' = pool
        /\ poolEnd' = "failed"
        /\ closeResult' = "thrown"
  /\ calledAfterClose' = calledAfterClose
  /\ UNCHANGED <<exited, created, idle, owner, queue, dbVars, callVars, txVars,
                 endVars, grantVars, foreignUse, gateVars>>

\* --------------------------------------- TransactionHelper.simpleTransaction
\* A `data` or `conditions` object is "undefined" or the sequence of its
\* <<field, value>> entries in the order of Object.keys.  A statement text
\* is the sequence of its tokens; the value of a field is a string that is
\* no identifier and no keyword, so that it is recognised in a text.
Value(f) == IF f = "a" THEN "value of a" ELSE IF f = "b" THEN "value of b"
            ELSE IF f = "c" THEN "value of c" ELSE "value of d"
Entry(f) == <<f, Value(f)>>
DataObjects == {"undefined", <<>>, <<Entry("a")>>, <<Entry("a"), Entry("b")>>}
ConditionObjects == {"undefined", <<>>, <<Entry("c")>>, <<Entry("c"), Entry("d")>>}
Values == {Value(f) : f \in {"a", "b", "c", "d"}}
Operations ==
  [type : {"insert", "update", "delete"}, table : {"users"},
   data : DataObjects, conditions : ConditionObjects]
OperationLists == UNION {[1..n -> Operations] : n \in 0..MaxOps}

\* AppError.badRequest(message)
AppErrorBadRequest(msg) ==
  [kind |-> "AppError", type |-> "BAD_REQUEST_ERROR", statusCode |-> 400, message |-> msg]

\* `!operation.data`, `!operation.conditions`: an object, even an empty
\* one, is truthy
Missing(obj) == obj = "undefined"

\* Object.keys(obj), Object.values(obj)
Keys(obj) == [i \in 1..Len(obj) |-> obj[i][1]]
ObjectValues(obj) == [i \in 1..Len(obj) |-> obj[i][2]]

\* items.join(sep), each item being a sequence of tokens
RECURSIVE Join(_, _)
Join(items, sep) ==
  IF items = <<>> THEN <<>>
  ELSE IF Len(items) = 1 THEN Head(items)
  ELSE Head(items) \o <<sep>> \o Join(Tail(items), sep)

\* faulty variant: the value is written into the statement text
Interpolated(v) == v

\* the '?' that stands for a value in the statement text
Placeholder(v) == "?"

\* fields.map(field => `${field} = ?`)
Assignments(obj) == [i \in 1..Len(obj) |-> <<obj[i][1], "=", Placeholder(obj[i][2])>>]

\* one case of the switch: the query and params of an operation
InsertQuery(o) ==
  [query |-> <<"INSERT INTO", o.table, "(">>
               \o Join([i \in 1..Len(o.data) |-> <<Keys(o.data)[i]>>], ",")
               \o <<")", "VALUES", "(">>
               \o Join([i \in 1..Len(o.data) |-> <<Placeholder(o.data[i][2])>>], ",")
               \o <<")">>,
   params |-> ObjectValues(o.data)]

UpdateQuery(o) ==
  [query |-> <<"UPDATE", o.table, "SET">> \o Join(Assignments(o.data), ",")
               \o <<"WHERE">> \o Join(Assignments(o.conditions), "AND"),
   params |-> ObjectValues(o.data) \o ObjectValues(o.conditions)]

DeleteQuery(o) ==
  [query |-> <<"DELETE FROM", o.table, "WHERE">> \o Join(Assignments(o.conditions), "AND"),
   params |-> ObjectValues(o.conditions)]

\* the throw of an operation's case, NoError when the case builds a query
OperationError(o) ==
  IF o.type = "insert" /\ Missing(o.data)
    THEN AppErrorBadRequest(<<"Insert operation requires data">>)
  ELSE IF o.type = "update" /\ (Missing(o.data) \/ Missing(o.conditions))
    THEN AppErrorBadRequest(<<"Update operation requires data and conditions">>)
  ELSE IF o.type = "delete" /\ Missing(o.conditions)
    THEN AppErrorBadRequest(<<"Delete operation requires conditions">>)
  ELSE NoError

BuildQuery(o) ==
  IF o.type = "insert" THEN InsertQuery(o)
  ELSE IF o.type = "update" THEN UpdateQuery(o)
  ELSE DeleteQuery(o)

\* faulty variant: the loop leaves out an operation that cannot be built
\* and goes on
RECURSIVE BuildQueriesSkipInvalid(_, _)
BuildQueriesSkipInvalid(ops, built) ==
  IF ops = <<>> THEN [queries |-> built, error |-> NoError]
  ELSE IF OperationError(Head(ops)) # NoError
    THEN BuildQueriesSkipInvalid(Tail(ops), built)
  ELSE BuildQueriesSkipInvalid(Tail(ops), Append(built, BuildQuery(Head(ops))))

\* the for-loop over `operations`: the queries pushed so far and the error
\* that ended the loop, if any
RECURSIVE BuildQueries(_, _)
BuildQueries(ops, built) ==
  IF ops = <<>> THEN [queries |-> built, error |-> NoError]
  ELSE IF OperationError(Head(ops)) # NoError
    THEN [queries |-> built, error |-> OperationError(Head(ops))]
  ELSE BuildQueries(Tail(ops), Append(built, BuildQuery(Head(ops))))

\* simpleTransaction(operations): build every query, then
\* `return await this.executeTransaction(queries, logTransaction)`
SimpleTransaction ==
  /\ stOutcome = Pending
  /\ LET b == BuildQueries(operations, <<>>) IN
     /\ queries' = b.queries
     /\ IF b.error # NoError
          THEN /\ stOutcome' = Thrown(b.error)
               /\ submitted' = submitted
          ELSE /\ stOutcome' = Returned("executeTransaction")
               /\ submitted' = b.queries
  /\ UNCHANGED <<operations, storeVars, authVars, appVars>>

BuildInit ==
  /\ StoreInit /\ AuthIdle /\ AppIdle
  /\ operations \in OperationLists
  /\ queries = <<>>
  /\ stOutcome = Pending
  /\ submitted = "none"

BuildNext == SimpleTransaction

BuildSpec == BuildInit /\ [][BuildNext]_vars

\* ------------------------------------------------------------ middleware
\* jsonwebtoken (^9.0.2, src/unnamed/part_000 line 27) is the environment:
\* sign() adds iat and exp and a signature that depends on the secret and
\* on all of the content; verify() rejects a string that is no token and a
\* signature that does not fit (JsonWebTokenError), then a token whose exp
\* is not in the future (TokenExpiredError), and returns the payload.
JwtSecret == "JWT_SECRET"
Payloads ==
  [id : {"1", "undefined"}, userId : {"undefined", "7"}, email : {"a@x.com"},
   role : {"admin", "user", "undefined"}]
\* the claim sets issued at login: {id, email, role}
ClaimSets == {p \in Payloads : p.id # "undefined" /\ p.userId = "undefined"}
RoleLists == SUBSET {"admin", "user"}

Signature(secret, payload, iat, exp) == <<secret, payload, iat, exp>>

\* config.JWT_EXPIRES_IN
JwtExpiresIn == MaxTtl

\* a JavaScript value is falsy when undefined or ''; `a || b`
Truthy(v) == v \notin {"undefined", ""}
Or(a, b) == IF Truthy(a) THEN a ELSE b

\* jwt.sign(payload, secret, {expiresIn}) at the present time
Sign(payload, secret, expiresIn) ==
  [format |-> "jwt", payload |-> payload, iat |-> clock, exp |-> clock + expiresIn,
   sig |-> Signature(secret, payload, clock, clock + expiresIn)]

\* faulty variant: the signature is not looked at
AnySignature(t) == TRUE

\* the signature fits the content under the secret of the configuration
ValidSignature(t) == t.sig = Signature(JwtSecret, t.payload, t.iat, t.exp)

\* jwt.verify(token, config.JWT_SECRET): the decoded payload or the error
Verify(t) ==
  IF t.format # "jwt" \/ ~ValidSignature(t)
    THEN [error |-> "JsonWebTokenError", decoded |-> "none"]
  ELSE IF clock >= t.exp
    THEN [error |-> "TokenExpiredError", decoded |-> "none"]
  ELSE [error |-> "none", decoded |-> t.payload]

\* the tokens a client can put behind 'Bearer ': a string that is no token,
\* the token it was issued, that token with its signature or its payload
\* altered, and the same content signed with another secret
BearerTokens ==
  {[NoToken EXCEPT !.format = "garbage"]} \cup
  (IF token = NoToken THEN {}
   ELSE {token,
         [token EXCEPT !.sig = <<"altered">>],
         [token EXCEPT !.payload.role = "admin"],
         [token EXCEPT !.sig = Signature("another secret", token.payload, token.iat, token.exp)]})

Headers ==
  {NoHeader} \cup {[scheme |-> "Basic", token |-> t] : t \in BearerTokens}
             \cup {[scheme |-> "Bearer", token |-> t] : t \in BearerTokens}

\* AppError.unauthorized(message), AppError.forbidden(message)
AppErrorUnauthorized(msg) ==
  [kind |-> "AppError", type |-> "AUTHENTICATION_ERROR", statusCode |-> 401, message |-> msg]
AppErrorForbidden(msg) ==
  [kind |-> "AppError", type |-> "AUTHORIZATION_ERROR", statusCode |-> 403, message |-> msg]

\* one call of next: its argument (NoError for none) and req.user as the
\* next handler finds it
NextCall(arg, user) == [arg |-> arg, user |-> user]

\* `authHeader && authHeader.startsWith('Bearer ')`
HasBearer(h) == h.scheme = "Bearer"

\* { id: decoded.id || decoded.userId, email: decoded.email, role: decoded.role }
UserOf(decoded) ==
  [set |-> TRUE, id |-> Or(decoded.id, decoded.userId), email |-> decoded.email,
   role |-> decoded.role]

\* faulty variant: every verification error is answered alike
VerifyFailureFlat(e) == AppErrorUnauthorized(<<"Invalid token">>)

\* the catch block of authenticate
VerifyFailure(e) ==
  IF e = "TokenExpiredError" THEN AppErrorUnauthorized(<<"Token has expired">>)
  ELSE IF e = "JsonWebTokenError" THEN AppErrorUnauthorized(<<"Invalid token">>)
  ELSE AppErrorUnauthorized(<<"Token verification failed">>)

\* faulty variant: the catch block of optionalAuth throws the error on
OptionalCatchRethrow(e) == VerifyFailure(e)

\* the catch block of optionalAuth ignores the error
OptionalCatch(e) == NoError

\* faulty variant: an empty list of roles admits nobody
PermittedListed(rs, role) == Or(role, "") \in rs

\* `roles.length > 0 && !roles.includes(req.user.role || '')` is false
Permitted(rs, role) == rs = {} \/ Or(role, "") \in rs

\* generateToken(payload, expiresIn); expiresIn 0 stands for none given:
\* `expiresIn || config.JWT_EXPIRES_IN`
GenerateToken ==
  /\ token = NoToken /\ stage = "none"
  /\ \E p \in Payloads, expiresIn \in 0..MaxTtl :
       token' = Sign(p, JwtSecret, IF expiresIn # 0 THEN expiresIn ELSE JwtExpiresIn)
  /\ UNCHANGED <<clock, req, nextCalls, stage, roles, storeVars, buildVars, appVars>>

\* a second passes before the token is verified
Tick ==
  /\ clock < MaxClock /\ stage \in {"none", "received"}
  /\ clock' = clock + 1
  /\ UNCHANGED <<token, req, nextCalls, stage, roles, storeVars, buildVars, appVars>>

\* a request arrives with some Authorization header, or none
Receive ==
  /\ stage = "none"
  /\ \E h \in Headers : req' = [authorization |-> h, user |-> NoUser]
  /\ stage' = "received"
  /\ UNCHANGED <<clock, token, nextCalls, roles, storeVars, buildVars, appVars>>

\* authenticate under asyncHandler: an error thrown goes to next(error)
Authenticate ==
  /\ stage = "received"
  /\ stage' = "authenticate"
  /\ LET h == req.authorization
         v == Verify(h.token)
     IN IF ~HasBearer(h)
          THEN /\ nextCalls' = Append(nextCalls,
                    NextCall(AppErrorUnauthorized(<<"Access token is required">>), req.user))
               /\ req' = req
        ELSE IF v.error # "none"
          THEN /\ nextCalls' = Append(nextCalls, NextCall(VerifyFailure(v.error), req.user))
               /\ req' = req
        ELSE /\ req' = [req EXCEPT !.user = UserOf(v.decoded)]
             /\ nextCalls' = Append(nextCalls, NextCall(NoError, UserOf(v.decoded)))
  /\ UNCHANGED <<clock, token, roles, storeVars, buildVars, appVars>>

\* optionalAuth under asyncHandler
OptionalAuth ==
  /\ stage = "received"
  /\ stage' = "optionalAuth"
  /\ LET h == req.authorization
         v == Verify(h.token)
         thrown == IF HasBearer(h) /\ v.error # "none" THEN OptionalCatch(v.error) ELSE NoError
         user == IF HasBearer(h) /\ v.error = "none" THEN UserOf(v.decoded) ELSE req.user
     IN /\ req' = [req EXCEPT !.user = user]
        /\ nextCalls' = Append(nextCalls, NextCall(thrown, user))
  /\ UNCHANGED <<clock, token, roles, storeVars, buildVars, appVars>>

\* authorize(...roles) under asyncHandler; it runs first in the chain or
\* after a middleware that called next()
Authorize ==
  /\ \/ stage = "received"
     \/ /\ stage \in {"authenticate", "optionalAuth"}
        /\ nextCalls[Len(nextCalls)].arg = NoError
  /\ stage' = "authorize"
  /\ \E rs \in RoleLists :
       /\ roles' = rs
       /\ nextCalls' = Append(nextCalls, NextCall(
            IF ~req.user.set THEN AppErrorUnauthorized(<<"Authentication required">>)
            ELSE IF ~Permitted(rs, req.user.role)
              THEN AppErrorForbidden(<<"Insufficient permissions">>)
            ELSE NoError, req.user))
  /\ UNCHANGED <<clock, token, req, storeVars, buildVars, appVars>>

AuthNext ==
  \/ GenerateToken
  \/ Tick
  \/ Receive
  \/ Authenticate
  \/ OptionalAuth
  \/ Authorize

AuthSpec == Init /\ [][AuthNext]_vars

\* ------------------------------------------------- globalErrorHandler
\* The error handler of src/src/db/connection.ts 350-429 and the AppError
\* factories of src/unnamed/part_012.  A message is a sequence of parts, so
\* that the text a wrapper copies into its own message stays visible.
AppErrorNotFound(msg) ==
  [kind |-> "AppError", type |-> "NOT_FOUND_ERROR", statusCode |-> 404, message |-> msg]
\* faulty variant: the factory gives a conflict the status of a bad request
AppErrorConflictBadRequest(msg) ==
  [kind |-> "AppError", type |-> "DUPLICATE_ERROR", statusCode |-> 400, message |-> msg]
AppErrorConflict(msg) ==
  [kind |-> "AppError", type |-> "DUPLICATE_ERROR", statusCode |-> 409, message |-> msg]
AppErrorValidation(msg) ==
  [kind |-> "AppError", type |-> "VALIDATION_ERROR", statusCode |-> 422, message |-> msg]
AppErrorInternal(msg) ==
  [kind |-> "AppError", type |-> "INTERNAL_SERVER_ERROR", statusCode |-> 500, message |-> msg]

\* an AppError or a plain Error as the value that is thrown: the class
\* AppError sets no name, so both carry the name "Error"; ctx is the
\* `context` argument of the factory
AsThrown(e, ctx) ==
  ThrownValue(e.kind, "Error", NoCode, TRUE, e.message, e.type, e.statusCode, ctx, TRUE)

Modes == {"development", "production", "test"}
ErrorNames == {"Error", "ValidationError", "CastError", "JsonWebTokenError",
               "TokenExpiredError"}
ErCodes == {"ER_DUP_ENTRY", "ER_NO_SUCH_TABLE"}
Codes == {NoCode, Code("number", "0"), Code("number", "1045"),
          Code("string", "ECONNREFUSED")} \cup {Code("string", c) : c \in ErCodes}
\* the text of a driver's own message
DriverMessages == {"Duplicate entry 'a@x' for key 'users.email'",
                   "Table 'newDB.users' doesn't exist"}
Messages == {<<>>} \cup {<<m>> : m \in DriverMessages}
InboundRequests == {Inbound("/api/v1/users", "POST"), Inbound("/api/v1/users/1", "GET")}

\* the errors the factories build, with the wrappers of the storage layer
AppErrors ==
  {AsThrown(e, NoContext) :
     e \in {AppErrorBadRequest(<<"Insert operation requires data">>),
            AppErrorUnauthorized(<<"Access token is required">>),
            AppErrorUnauthorized(<<"Token has expired">>),
            AppErrorUnauthorized(<<"Invalid token">>),
            AppErrorForbidden(<<"Insufficient permissions">>),
            AppErrorNotFound(<<"User not found">>),
            AppErrorConflict(<<"User with this email already exists">>),
            AppErrorInternal(<<"Failed to delete user">>),
            PoolNotInitialized}
       \cup {QueryExecutionFailed(DriverError(m)) : m \in DriverMessages}
       \cup {TransactionFailed(DriverError(m)) : m \in DriverMessages}}
  \cup {AsThrown(AppErrorValidation(<<"Validation failed">>),
                 ErrorsContext(<<"\"email\" is required">>))}

\* any other Error: every name with every code, with or without text
PlainErrors ==
  {ThrownValue("Error", n, c, TRUE, m, "none", 0, NoContext, TRUE) :
     n \in ErrorNames, c \in Codes, m \in Messages}

\* values that are no Error: an object whose code is a number, an object
\* without name or message, null and undefined
Malformed ==
  {ThrownValue("object", "undefined", Code("number", "1045"), TRUE,
               <<"Access denied">>, "none", 0, NoContext, FALSE),
   ThrownValue("object", "undefined", NoCode, FALSE, <<>>, "none", 0, NoContext, FALSE),
   ThrownValue("null", "undefined", NoCode, FALSE, <<>>, "none", 0, NoContext, FALSE),
   ThrownValue("undefined", "undefined", NoCode, FALSE, <<>>, "none", 0, NoContext, FALSE)}

ThrownValues == AppErrors \cup PlainErrors \cup Malformed

\* reading a property of null or undefined throws a TypeError
IsNullish(v) == v.kind \in {"null", "undefined"}

\* logError(error, context) reads error.message and error.stack
LogErrorThrows(v) == IsNullish(v)

\* `(error as any).code` is truthy
TruthyCode(c) ==
  \/ c.typeof = "string" /\ c.value # ""
  \/ c.typeof = "number" /\ c.value # "0"

\* `code.startsWith('ER_')`, for a string
StartsWithER(c) == c.value \in ErCodes

\* `error.message || 'Validation failed'`
MessageOr(v, fallback) == IF v.hasMessage /\ v.message # <<>> THEN v.message ELSE fallback

Classified(threw, statusCode, type, hasMessage, message, context) ==
  [threw |-> threw, statusCode |-> statusCode, type |-> type,
   hasMessage |-> hasMessage, message |-> message, context |-> context]
ClassifyThrew == Classified(TRUE, 0, "none", FALSE, <<>>, NoContext)

\* `config.NODE_ENV === 'production' ? 'Database error occurred' : error.message`
DatabaseMessage(v, env) ==
  IF env = "production" THEN <<"Database error occurred">> ELSE v.message

\* faulty variant: the driver's code is looked at before the error's name
ClassifyCodeFirst(v, env) ==
  IF IsNullish(v) THEN ClassifyThrew
  ELSE IF v.kind = "AppError"
    THEN Classified(FALSE, v.statusCode, v.type, TRUE, v.message, v.context)
  ELSE IF v.code = Code("string", "ER_DUP_ENTRY")
    THEN Classified(FALSE, 409, "DUPLICATE_ERROR", TRUE, <<"Duplicate entry found">>, NoContext)
  ELSE IF TruthyCode(v.code) /\ v.code.typeof = "string" /\ StartsWithER(v.code)
    THEN Classified(FALSE, 500, "DATABASE_ERROR", env = "production" \/ v.hasMessage,
                    DatabaseMessage(v, env), NoContext)
  ELSE IF v.name = "ValidationError"
    THEN Classified(FALSE, 422, "VALIDATION_ERROR", TRUE,
                    MessageOr(v, <<"Validation failed">>), NoContext)
  ELSE IF v.name = "CastError"
    THEN Classified(FALSE, 400, "BAD_REQUEST_ERROR", TRUE, <<"Invalid resource ID">>, NoContext)
  ELSE IF v.name = "JsonWebTokenError"
    THEN Classified(FALSE, 401, "AUTHENTICATION_ERROR", TRUE, <<"Invalid token">>, NoContext)
  ELSE IF v.name = "TokenExpiredError"
    THEN Classified(FALSE, 401, "AUTHENTICATION_ERROR", TRUE, <<"Token expired">>, NoContext)
  ELSE IF TruthyCode(v.code) /\ v.code.typeof # "string" THEN ClassifyThrew
  ELSE Classified(FALSE, 500, "INTERNAL_SERVER_ERROR", TRUE, <<"Something went wrong!">>,
                  NoContext)

\* the if-else chain of globalErrorHandler, lines 373-402, after the
\* defaults of lines 367-370
Classify(v, env) ==
  IF IsNullish(v) THEN ClassifyThrew
  ELSE IF v.kind = "AppError"
    THEN Classified(FALSE, v.statusCode, v.type, TRUE, v.message, v.context)
  ELSE IF v.name = "ValidationError"
    THEN Classified(FALSE, 422, "VALIDATION_ERROR", TRUE,
                    MessageOr(v, <<"Validation failed">>), NoContext)
  ELSE IF v.name = "CastError"
    THEN Classified(FALSE, 400, "BAD_REQUEST_ERROR", TRUE, <<"Invalid resource ID">>, NoContext)
  ELSE IF v.name = "JsonWebTokenError"
    THEN Classified(FALSE, 401, "AUTHENTICATION_ERROR", TRUE, <<"Invalid token">>, NoContext)
  ELSE IF v.name = "TokenExpiredError"
    THEN Classified(FALSE, 401, "AUTHENTICATION_ERROR", TRUE, <<"Token expired">>, NoContext)
  ELSE IF v.code = Code("string", "ER_DUP_ENTRY")
    THEN Classified(FALSE, 409, "DUPLICATE_ERROR", TRUE, <<"Duplicate entry found">>, NoContext)
  ELSE IF TruthyCode(v.code)
    THEN IF v.code.typeof # "string" THEN ClassifyThrew
         ELSE IF StartsWithER(v.code)
           THEN Classified(FALSE, 500, "DATABASE_ERROR", env = "production" \/ v.hasMessage,
                           DatabaseMessage(v, env), NoContext)
         ELSE Classified(FALSE, 500, "INTERNAL_SERVER_ERROR", TRUE,
                         <<"Something went wrong!">>, NoContext)
  ELSE Classified(FALSE, 500, "INTERNAL_SERVER_ERROR", TRUE, <<"Something went wrong!">>,
                  NoContext)

\* faulty variant: the stack is left out in development only
StackShownOutsideDevelopment(env) == env # "development"

\* `config.NODE_ENV === 'development'`
StackShown(env) == env = "development"

\* `if (context)`
ContextShown(ctx) == ctx.defined

\* the ErrorResponse of lines 405-425 as JSON: a key whose value is
\* undefined is absent
Envelope(c, v, r, env) ==
  [success |-> FALSE, type |-> c.type, hasMessage |-> c.hasMessage,
   message |-> c.message, statusCode |-> c.statusCode, hasTimestamp |-> TRUE,
   path |-> r.originalUrl, method |-> r.method,
   hasStack |-> StackShown(env) /\ v.hasStack,
   hasContext |-> ContextShown(c.context), context |-> c.context]

\* res.status(statusCode).json(errorResponse)
Response(status, body) == [status |-> status, body |-> body]

\* what globalErrorHandler(error, req, res, next) does with res
Handle(v, r, env) ==
  LET c == Classify(v, env) IN
    IF LogErrorThrows(v) \/ c.threw
      THEN [threw |-> TRUE, responses |-> <<>>]
      ELSE [threw |-> FALSE, responses |-> <<Response(c.statusCode, Envelope(c, v, r, env))>>]

\* some handler or middleware hands an error to next(error)
Raise ==
  /\ raised = NoRaised
  /\ \E v \in ThrownValues, r \in InboundRequests : raised' = [error |-> v, req |-> r]
  /\ UNCHANGED <<nodeEnv, sent, handlerResult, storeVars, buildVars, authVars, pipeVars>>

\* globalErrorHandler(error, req, res, next)
GlobalErrorHandler ==
  /\ raised # NoRaised /\ handlerResult = "idle"
  /\ LET h == Handle(raised.error, raised.req, nodeEnv) IN
       /\ sent' = sent \o h.responses
       /\ handlerResult' = IF h.threw THEN "thrown" ELSE "returned"
  /\ UNCHANGED <<nodeEnv, raised, storeVars, buildVars, authVars, pipeVars>>

\* the process is started in some environment mode
ErrInit ==
  /\ StoreInit /\ BuildIdle /\ AuthIdle
  /\ nodeEnv \in Modes
  /\ ErrIdle /\ RouteIdle /\ ProcIdle /\ UserIdle /\ UtilIdle

ErrNext == Raise \/ GlobalErrorHandler

ErrSpec == ErrInit /\ [][ErrNext]_vars

\* --------------------------------------- errors leaving a transaction
\* The catch blocks of executeTransaction (transaction.helper.ts 85-109)
\* and withTransaction (150-173) as a function of the error they catch,
\* followed by the error handler.  The errors are those a statement or a
\* callback can raise: the AppErrors of the factories and the Errors of
\* the driver.
TransactionErrors == AppErrors \cup PlainErrors

\* what the caller of executeTransaction or withTransaction catches for
\* the error caught inside: AppError.database(message) has no context
Flattened(e) == AsThrown(TransactionFailed(e), NoContext)

\* a statement or the callback raises an error inside the transaction; the
\* catch block throws its own error, and the controller's asyncHandler
\* gives that one to next
TransactionThrow ==
  /\ inner = NoThrown /\ raised = NoRaised
  /\ \E v \in TransactionErrors, r \in InboundRequests :
       /\ inner' = v
       /\ raised' = [error |-> Flattened(v), req |-> r]
  /\ UNCHANGED <<nodeEnv, sent, handlerResult, routeVars, procVars, userVars, rt, pg, sd, svc,
                 storeVars, buildVars, authVars>>

WrapNext == TransactionThrow \/ GlobalErrorHandler

WrapSpec == ErrInit /\ [][WrapNext]_vars

\* ------------------------------------------------------ retry (utilities)
\* retry(fn, maxAttempts, delay) of src/src/utils/common.utils.ts 193-214.
\* fn is the environment: each call of it returns or throws.
Attempts == 0..MaxAttempts
Delays == 0..MaxDelay

\* faulty variant: the same pause before every attempt
BackoffConstant(delay, attempt) == delay

\* `await sleep(delay * attempt)`
Backoff(delay, attempt) == delay * attempt

\* retry is called: `attempt = 1`, and the first call of fn when the loop
\* is entered; otherwise `throw new Error("Max retry attempts reached")`
RetryCall ==
  /\ rt.pc = "idle"
  /\ \E m \in Attempts, d \in Delays :
       rt' = IF 1 <= m
               THEN [rt EXCEPT !.pc = "fn", !.maxAttempts = m, !.delay = d,
                               !.attempt = 1, !.calls = 1]
               ELSE [rt EXCEPT !.pc = "done", !.maxAttempts = m, !.delay = d,
                               !.attempt = 1, !.status = "thrown", !.error = 0]
  /\ UNCHANGED <<inner, pg, sd, svc, errVars, routeVars, procVars, userVars, storeVars,
                 buildVars, authVars>>

\* the call of fn settles: return its value, or rethrow at the last
\* attempt, or sleep
FnSettle ==
  /\ rt.pc = "fn"
  /\ \/ rt' = [rt EXCEPT !.pc = "done", !.status = "returned", !.value = rt.calls]
     \/ rt' = IF rt.attempt = rt.maxAttempts
                THEN [rt EXCEPT !.pc = "done", !.status = "thrown", !.error = rt.calls]
                ELSE [rt EXCEPT !.pc = "sleep",
                                !.waits = Append(@, Backoff(rt.delay, rt.attempt))]
  /\ UNCHANGED <<inner, pg, sd, svc, errVars, routeVars, procVars, userVars, storeVars,
                 buildVars, authVars>>

\* the timer of sleep fires: `attempt++`, the loop test and the next call
\* of fn
Wake ==
  /\ rt.pc = "sleep"
  /\ rt' = IF rt.attempt + 1 <= rt.maxAttempts
             THEN [rt EXCEPT !.pc = "fn", !.attempt = @ + 1, !.calls = @ + 1]
             ELSE [rt EXCEPT !.pc = "done", !.attempt = @ + 1, !.status = "thrown",
                             !.error = 0]
  /\ UNCHANGED <<inner, pg, sd, svc, errVars, routeVars, procVars, userVars, storeVars,
                 buildVars, authVars>>

RetryNext == RetryCall \/ FnSettle \/ Wake

\* fn settles and the timers fire
RetrySpec == Init /\ [][RetryNext]_vars /\ WF_vars(FnSettle \/ Wake)

\* ------------------------------------------- calculatePagination (utilities)
\* calculatePagination(totalCount, options) of common.utils.ts 137-156 as
\* a function of integers.
Counts == 0..MaxCount
Optional(S) == {Absent} \cup {<<v>> : v \in S}

\* `const { page = 1, ... } = options`: the default stands in for a
\* property that is absent
Default(o, d) == IF o = Absent THEN d ELSE o[1]

Max(a, b) == IF a >= b THEN a ELSE b
Min(a, b) == IF a <= b THEN a ELSE b

\* faulty variant: the quotient is rounded down
CeilDown(a, b) == a \div b

\* Math.ceil(a / b) for a >= 0 and b >= 1
Ceil(a, b) == IF a % b = 0 THEN a \div b ELSE (a \div b) + 1

CalculatePagination(totalCount, page, limit, maxLimit) ==
  LET normalizedPage == Max(1, Default(page, 1))
      normalizedLimit == Min(Max(1, Default(limit, 10)), Default(maxLimit, 100))
      totalPages == Ceil(totalCount, normalizedLimit)
  IN [page |-> normalizedPage, limit |-> normalizedLimit,
      offset |-> (normalizedPage - 1) * normalizedLimit,
      totalPages |-> totalPages,
      hasNext |-> normalizedPage < totalPages,
      hasPrevious |-> normalizedPage > 1]

\* a call with some count and some options
Paginate ==
  /\ ~pg.done
  /\ pg' = [pg EXCEPT !.done = TRUE,
                      !.result = CalculatePagination(pg.totalCount, pg.page, pg.limit,
                                                     pg.maxLimit)]
  /\ UNCHANGED <<inner, rt, sd, svc, errVars, routeVars, procVars, userVars, storeVars,
                 buildVars, authVars>>

PageInit ==
  /\ StoreInit /\ BuildIdle /\ AuthIdle
  /\ nodeEnv = "development" /\ ErrIdle /\ RouteIdle /\ ProcIdle /\ UserIdle
  /\ inner = NoThrown /\ rt = NoRetry /\ sd = NoShutdown /\ svc = NoService
  /\ \E c \in Counts, p \in Optional(-1..MaxPage), l \in Optional(-1..MaxPage),
        m \in Optional(1..MaxPage) :
       pg = [NoPagination EXCEPT !.totalCount = c, !.page = p, !.limit = l, !.maxLimit = m]

PageNext == Paginate

PageSpec == PageInit /\ [][PageNext]_vars

\* ------------------------------------------------- routes and validate
\* The router of src/unnamed/part_006 and validate of src/unnamed/part_009.
\* Joi is the environment: schema.validate(value, { abortEarly: false })
\* returns error.details with one entry for every rule the value breaks,
\* in the order of the rules.

\* faulty variant: every route validates before anything else
ChainValidateFirst(r) ==
  CASE r = "POST /register" -> <<"validate", "controller">>
    [] r = "PUT /profile" -> <<"validate", "authenticate", "controller">>
    [] r = "GET /" -> <<"validate", "authenticate", "authorize", "controller">>
    [] r = "PUT /:id" -> <<"validate", "authenticate", "authorize", "controller">>
    [] r = "validate(schema)" -> <<"validate", "controller">>
    [] OTHER -> <<>>

\* the middleware chain of a route, as the router registers it:
\* router.use(authenticate) comes before every route below line 25
Chain(r) ==
  CASE r = "POST /register" -> <<"validate", "controller">>
    [] r = "PUT /profile" -> <<"authenticate", "validate", "controller">>
    [] r = "GET /" -> <<"authenticate", "authorize", "validate", "controller">>
    [] r = "PUT /:id" -> <<"authenticate", "authorize", "validate", "controller">>
    [] r = "validate(schema)" -> <<"validate", "controller">>
    [] OTHER -> <<>>

\* the sources declared by the schema of the route (userValidation.create,
\* the inline schema of PUT /profile, getUsers, update)
DeclaredBy(r) ==
  CASE r = "POST /register" -> {{"body"}}
    [] r = "PUT /profile" -> {{"body"}}
    [] r = "GET /" -> {{"query"}}
    [] r = "PUT /:id" -> {{"params", "body"}}
    [] r = "validate(schema)" -> SUBSET Sources
    [] OTHER -> {}

RouteNames == {"POST /register", "PUT /profile", "GET /", "PUT /:id", "validate(schema)"}
Protected(r) == r \in {"PUT /profile", "GET /", "PUT /:id"}
RoutePath(r) == IF r = "validate(schema)" THEN "/api/v1" ELSE "/api/v1/users"

\* detail.message of the rule k of source s
DetailMessage ==
  [body |-> <<"body rule 1", "body rule 2", "body rule 3", "body rule 4">>,
   params |-> <<"params rule 1", "params rule 2", "params rule 3", "params rule 4">>,
   query |-> <<"query rule 1", "query rule 2", "query rule 3", "query rule 4">>]

\* error.details of schema.validate(value, { abortEarly: false }): the
\* broken rules in ascending order
RECURSIVE Details(_, _)
Details(s, broken) ==
  IF broken = {} THEN <<>>
  ELSE LET k == CHOOSE x \in broken : \A y \in broken : x <= y
       IN <<DetailMessage[s][k]>> \o Details(s, broken \ {k})

\* `if (schema.body) { ... validationErrors.push(detail.message) ... }`
SourceErrors(s, d, v) == IF s \in d THEN Details(s, v[s]) ELSE <<>>

\* faulty variant: validate stops at the first source that has violations
ValidationErrorsFirstSource(d, v) ==
  IF SourceErrors("body", d, v) # <<>> THEN SourceErrors("body", d, v)
  ELSE IF SourceErrors("params", d, v) # <<>> THEN SourceErrors("params", d, v)
  ELSE SourceErrors("query", d, v)

\* the validationErrors array after the three blocks of lines 19-46
ValidationErrors(d, v) ==
  SourceErrors("body", d, v) \o SourceErrors("params", d, v) \o SourceErrors("query", d, v)

\* the number of next calls made for the request: every middleware before
\* the controller calls next once, with or without an error; the
\* controller only when it throws
Passed == Len(nextCalls)
Rejected == Passed > 0 /\ nextCalls[Passed].arg # NoError

\* the stage that Express runs next for the request
NextStage ==
  IF stage = "none" \/ route = "none" THEN "none"
  ELSE IF Rejected THEN "error"
  ELSE IF stage = "controller" THEN "done"
  ELSE Chain(route)[Passed + 1]

\* authenticate as the route's next middleware
RouteAuthenticate ==
  /\ ~proc.exited
  /\ NextStage = "authenticate"
  /\ Authenticate

\* authorize("admin") as the route's next middleware
RouteAuthorize ==
  /\ ~proc.exited
  /\ NextStage = "authorize"
  /\ Authorize
  /\ roles' = {"admin"}

\* validate(schema) under asyncHandler
Validate ==
  /\ ~proc.exited
  /\ NextStage = "validate"
  /\ stage' = "validate"
  /\ LET errors == ValidationErrors(declared, violated) IN
       /\ validationErrors' = errors
       /\ nextCalls' = Append(nextCalls, NextCall(
            IF Len(errors) > 0 THEN AppErrorValidation(<<"Validation failed">>) ELSE NoError,
            req.user))
  /\ UNCHANGED <<clock, token, req, roles, route, declared, violated, handled, proc,
                 errVars, userVars, utilVars, storeVars, buildVars>>

\* faulty variant: the wrapper leaves the rejection of fn unhandled
AsyncHandlerUncaught(calls, thrown, user) == calls

\* asyncHandler: Promise.resolve(fn(req, res, next)).catch(next): the next
\* calls of the request once fn has returned, or has thrown `thrown`
AsyncHandler(calls, thrown, user) ==
  IF thrown = NoError THEN calls ELSE Append(calls, NextCall(thrown, user))

\* formatResponse(data, message) as JSON: { success, message, data,
\* timestamp }
FormatResponse(message) ==
  [success |-> TRUE, hasMessage |-> TRUE, message |-> <<message>>, hasTimestamp |-> TRUE]

\* what the controller of the route answers when its service call returns
Success(r) ==
  CASE r = "POST /register" -> Response(201, FormatResponse("User created successfully"))
    [] r = "PUT /profile" -> Response(200, FormatResponse("Profile updated successfully"))
    [] r = "GET /" -> Response(200, FormatResponse("Users retrieved successfully"))
    [] r = "PUT /:id" -> Response(200, FormatResponse("User updated successfully"))
    [] OTHER -> Response(200, FormatResponse("done"))

\* the errors the controller of the route can throw: its own checks of
\* req.user and the errors of the service call, which depend on the table
\* and on the driver
ControllerErrors(r, user) ==
  LET conflict == AppErrorConflict(<<"User with this email already exists">>)
      notFound == AppErrorNotFound(<<"User not found">>)
      failed == QueryExecutionFailed(DriverError("E_stmt"))
  IN CASE r = "POST /register" -> {conflict, failed}
       [] r = "PUT /profile" ->
            IF ~Truthy(user.id)
              THEN {AppErrorUnauthorized(<<"User not authenticated">>)}
              ELSE {notFound, conflict, failed}
       [] r = "GET /" -> {failed}
       [] r = "PUT /:id" -> {notFound, conflict, failed}
       [] OTHER -> {failed}

\* the controller of the route, the last entry of its chain, under
\* asyncHandler: it sends its response or throws
Controller ==
  /\ ~proc.exited
  /\ NextStage = "controller"
  /\ stage' = "controller"
  /\ handled' = TRUE
  /\ \E thrown \in
         (IF route = "PUT /profile" /\ ~Truthy(req.user.id) THEN {} ELSE {NoError})
           \cup ControllerErrors(route, req.user) :
       /\ nextCalls' = AsyncHandler(nextCalls, thrown, req.user)
       /\ sent' = IF thrown = NoError THEN Append(sent, Success(route)) ELSE sent
  /\ UNCHANGED <<clock, token, req, roles, route, declared, violated,
                 validationErrors, proc, nodeEnv, raised, handlerResult, userVars,
                 utilVars, storeVars, buildVars>>

\* Express hands the error given to next(error) to the error middleware
Forward ==
  /\ ~proc.exited
  /\ NextStage = "error" /\ raised = NoRaised
  /\ LET e == nextCalls[Passed].arg IN
       raised' = [error |-> AsThrown(e, IF e.type = "VALIDATION_ERROR"
                                           THEN ErrorsContext(validationErrors)
                                           ELSE NoContext),
                  req |-> Inbound(RoutePath(route), "PUT")]
  /\ UNCHANGED <<nodeEnv, sent, handlerResult, pipeVars, storeVars, buildVars, authVars>>

\* faulty variant: the fault is logged and the process goes on
FaultLogged(p, event) == Process(p.exited, p.exitCode, Append(p.log, event))

\* the listeners of handleUnhandledRejection and handleUncaughtException:
\* logger.error(...); process.exit(1)
FaultHandled(p, event) == Process(TRUE, 1, Append(p.log, event))

\* the runtime delivers an uncaughtException or an unhandledRejection
Fault ==
  /\ ~proc.exited
  /\ \E event \in {"uncaughtException", "unhandledRejection"} :
       proc' = FaultHandled(proc, event)
  /\ UNCHANGED <<errVars, routeVars, userVars, utilVars, storeVars, buildVars, authVars>>

\* a request for one of the routes, after a login or without one
RouteInit ==
  /\ StoreInit /\ BuildIdle
  /\ nodeEnv = "development" /\ ErrIdle /\ ProcIdle /\ UserIdle /\ UtilIdle
  /\ validationErrors = <<>> /\ handled = FALSE
  /\ clock = 0 /\ req = NoRequest /\ nextCalls = <<>> /\ stage = "none" /\ roles = {}
  /\ token \in {NoToken} \cup {Sign(p, JwtSecret, JwtExpiresIn) : p \in ClaimSets}
  /\ route \in RouteNames
  /\ declared \in DeclaredBy(route)
  /\ violated \in {v \in [Sources -> SUBSET Rules] : \A s \in Sources \ declared : v[s] = {}}

RouteNext ==
  \/ ~proc.exited /\ Tick
  \/ ~proc.exited /\ Receive
  \/ RouteAuthenticate
  \/ RouteAuthorize
  \/ Validate
  \/ Controller
  \/ Forward
  \/ ~proc.exited /\ GlobalErrorHandler
  \/ Fault

RouteSpec == RouteInit /\ [][RouteNext]_vars

\* the steps Express and the event loop take for a request that is in the
\* chain: none of them waits for anything but the step before it
RouteServe ==
  \/ RouteAuthenticate
  \/ RouteAuthorize
  \/ Validate
  \/ Controller
  \/ Forward
  \/ ~proc.exited /\ GlobalErrorHandler

\* a request for one of the routes the router registers
ServeInit == RouteInit /\ route # "validate(schema)"

ServeSpec == ServeInit /\ [][RouteNext]_vars /\ WF_vars(RouteServe)

\* ------------------------------------------------------ the user service
\* UserService (src/unnamed/part_004) over UserQuery (src/unnamed/part_005)
\* and the users table (src/migrations/create_users_table.sql).  Every
\* statement reaches the table and succeeds unless it breaks the UNIQUE
\* index on email; a statement is one step, and the awaits of bcrypt, which
\* touch no shared state, are joined to the step that follows them.
Emails == {"admin@example.com", "new@example.com"}
Passwords == {"admin123", "newpassword123", "wrong"}
UserIds == 1..(NumRegs + 1)

\* `SELECT 1 FROM users WHERE email = ? LIMIT 1`: result.data.length > 0
Exists(table, email) == \E u \in table : u.email = email
\* `SELECT ... FROM users WHERE id = ?`, `... WHERE email = ?`
FoundById(table, id) == {u \in table : u.id = id}
FoundByEmail(table, email) == {u \in table : u.email = email}

\* id INT NOT NULL AUTO_INCREMENT
NextId(table) == 1 + Cardinality(table)

\* the error of the driver for a statement that breaks UNIQUE (email)
DuplicateEntry == DriverError("Duplicate entry 'a@x' for key 'users.email'")

\* the status and the type of the failure envelope for an error thrown in
\* a controller: asyncHandler, then globalErrorHandler
AnswerTo(e) ==
  LET h == Handle(AsThrown(e, NoContext), Inbound("/api/v1/users/register", "POST"), nodeEnv)
  IN [status |-> h.responses[1].status, type |-> h.responses[1].body.type,
      message |-> h.responses[1].body.message]
\* res.status(201).json(formatResponse(user, 'User created successfully'))
Created == [status |-> 201, type |-> "none", message |-> <<"User created successfully">>]

\* the keys of UpdateUserInput that UserQuery.update writes, lines 82-105
UpdateColumns == <<"email", "firstName", "lastName", "role", "isActive">>

\* `fields`: the columns for which updateData has a value
RECURSIVE Fields(_, _)
Fields(updateData, columns) ==
  IF columns = <<>> THEN <<>>
  ELSE (IF Head(columns) \in DOMAIN updateData THEN <<Head(columns)>> ELSE <<>>)
         \o Fields(updateData, Tail(columns))

\* UserQuery.update(id, updateData): the table after it; with no field to
\* set it only reads the row (lines 107-109)
UserUpdate(table, id, updateData) ==
  LET fields == Fields(updateData, UpdateColumns)
      set == {fields[i] : i \in 1..Len(fields)}
  IN IF Len(fields) = 0 THEN table
     ELSE {IF u.id = id
             THEN [k \in DOMAIN u |-> IF k \in set THEN updateData[k] ELSE u[k]]
             ELSE u : u \in table}

\* POST /register: createUser(userData)
RegisterCall(r) ==
  /\ reg[r].pc = "idle"
  /\ \E e \in Emails : reg' = [reg EXCEPT ![r].pc = "exists", ![r].email = e]
  /\ UNCHANGED <<users, cp, login, errVars, routeVars, procVars, utilVars, storeVars, buildVars,
                 authVars>>

\* `await userQuery.exists(userData.email)` and the test of its result
ExistsDone(r) ==
  /\ reg[r].pc = "exists"
  /\ IF Exists(users, reg[r].email)
       THEN reg' = [reg EXCEPT ![r].pc = "done",
                     ![r].answer = AnswerTo(AppErrorConflict(
                                      <<"User with this email already exists">>))]
       ELSE reg' = [reg EXCEPT ![r].pc = "insert"]
  /\ UNCHANGED <<users, cp, login, errVars, routeVars, procVars, utilVars, storeVars, buildVars,
                 authVars>>

\* `await userQuery.create(...)`: the INSERT through queryExecutor.execute,
\* which wraps the error of the driver
InsertDone(r) ==
  /\ reg[r].pc = "insert"
  /\ IF Exists(users, reg[r].email)
       THEN /\ reg' = [reg EXCEPT ![r].pc = "done",
                        ![r].answer = AnswerTo(QueryExecutionFailed(DuplicateEntry))]
            /\ users' = users
       ELSE /\ users' = users \cup
                  {Row(NextId(users), reg[r].email, Hash("password123"), "2", "1")}
            /\ reg' = [reg EXCEPT ![r].pc = "done", ![r].answer = Created,
                        ![r].inserted = TRUE]
  /\ UNCHANGED <<cp, login, errVars, routeVars, procVars, utilVars, storeVars, buildVars, authVars>>

\* PUT /change-password: changePassword(id, currentPassword, newPassword)
ChangePasswordCall ==
  /\ cp.pc = "idle"
  /\ \E id \in UserIds, c \in Passwords, n \in Passwords :
       cp' = [cp EXCEPT !.pc = "find", !.id = id, !.currentPassword = c, !.newPassword = n]
  /\ UNCHANGED <<users, reg, login, errVars, routeVars, procVars, utilVars, storeVars, buildVars,
                 authVars>>

\* `await userQuery.findById(id)`
ChangePasswordFind ==
  /\ cp.pc = "find"
  /\ LET found == FoundById(users, cp.id) IN
       IF found = {}
         THEN cp' = [cp EXCEPT !.pc = "done",
                      !.outcome = Thrown(AppErrorNotFound(<<"User not found">>))]
         ELSE cp' = [cp EXCEPT !.pc = "update",
                      !.read = (CHOOSE u \in found : TRUE).password]
  /\ UNCHANGED <<users, reg, login, errVars, routeVars, procVars, utilVars, storeVars, buildVars,
                 authVars>>

\* comparePassword, hashPassword and
\* `await userQuery.update(id, { password: hashedNewPassword } as any)`
ChangePasswordUpdate ==
  /\ cp.pc = "update"
  /\ IF cp.read # Hash(cp.currentPassword)
       THEN /\ cp' = [cp EXCEPT !.pc = "done",
                       !.outcome = Thrown(AppErrorUnauthorized(
                                     <<"Current password is incorrect">>))]
            /\ users' = users
       ELSE /\ users' = UserUpdate(users, cp.id, [k \in {"password"} |-> Hash(cp.newPassword)])
            /\ cp' = [cp EXCEPT !.pc = "done", !.outcome = Returned("void")]
  /\ UNCHANGED <<reg, login, errVars, routeVars, procVars, utilVars, storeVars, buildVars, authVars>>

\* POST /login: login(loginData); afterChange notes that the call follows
\* a changePassword that returned
LoginCall ==
  /\ login.pc = "idle"
  /\ \E e \in Emails, p \in Passwords :
       login' = [login EXCEPT !.pc = "find", !.email = e, !.password = p,
                  !.afterChange = (cp.pc = "done" /\ cp.outcome.status = "returned")]
  /\ UNCHANGED <<users, reg, cp, errVars, routeVars, procVars, utilVars, storeVars, buildVars,
                 authVars>>

\* findByEmail, the tests of lines 123-141 and generateToken
LoginDone ==
  /\ login.pc = "find"
  /\ LET found == FoundByEmail(users, login.email) IN
       login' = [login EXCEPT !.pc = "done", !.outcome =
         IF found = {} THEN Thrown(AppErrorUnauthorized(<<"Invalid email or password">>))
         ELSE LET u == CHOOSE x \in found : TRUE IN
           IF u.isActive \in {"0", "false"}
             THEN Thrown(AppErrorUnauthorized(<<"Account is deactivated">>))
           ELSE IF u.password # Hash(login.password)
             THEN Thrown(AppErrorUnauthorized(<<"Invalid email or password">>))
           ELSE Returned("token")]
  /\ UNCHANGED <<users, reg, cp, errVars, routeVars, procVars, utilVars, storeVars, buildVars,
                 authVars>>

UserNext ==
  \/ \E r \in Regs : RegisterCall(r)
  \/ \E r \in Regs : ExistsDone(r)
  \/ \E r \in Regs : InsertDone(r)
  \/ ChangePasswordCall
  \/ ChangePasswordFind
  \/ ChangePasswordUpdate
  \/ LoginCall
  \/ LoginDone

UserSpec == Init /\ [][UserNext]_vars

\* ------------------------------------- what the user service returns
\* The values returned by createUser, getUserById, updateUser, getUsers and
\* login (src/unnamed/part_004) over the rows of UserQuery
\* (src/unnamed/part_005).  One call runs at a time, so a call is one step.
\* A JavaScript object is a function from its own enumerable keys; a
\* number, which has none, is a record with the single field `number`.
Number(n) == [number |-> n]
OwnKeys(v) == IF "number" \in DOMAIN v THEN {} ELSE DOMAIN v

\* faulty variant: the object is returned as UserQuery gave it
KeepingPassword(v) == [k \in OwnKeys(v) |-> v[k]]

\* `const { password, ...userWithoutPassword } = user`
WithoutPassword(v) == [k \in OwnKeys(v) \ {"password"} |-> v[k]]

\* the SELECT list of findAll, lines 179-188
FindAllColumns == {"id", "email", "firstName", "lastName", "role", "isActive"}

\* `!user.isActive` for the value of the BOOLEAN column
Falsy(v) == v \in {"0", "false"}

\* generateToken({ id, email, role })
LoginToken(u) == Sign([id |-> u.id, email |-> u.email, role |-> u.role], JwtSecret, JwtExpiresIn)

\* the rows of a table by descending id: ORDER BY created_at DESC
RECURSIVE Newest(_)
Newest(table) ==
  IF table = {} THEN <<>>
  ELSE LET u == CHOOSE x \in table : \A y \in table : y.id <= x.id
       IN <<u>> \o Newest(table \ {u})

\* `LIMIT ? OFFSET ?`
Window(rows, limit, offset) ==
  SubSeq(rows, Min(offset, Len(rows)) + 1, Min(offset + limit, Len(rows)))

\* UserQuery.findAll({ pagination, isActive })
FindAll(table, page, limit, isActive) ==
  LET matched == {u \in table : isActive = Absent \/ u.isActive = isActive[1]}
      paginationResult == CalculatePagination(Cardinality(matched), page, limit, Absent)
      rows == Window(Newest(matched), paginationResult.limit, paginationResult.offset)
  IN [users |-> [i \in 1..Len(rows) |-> [k \in FindAllColumns |-> rows[i][k]]],
      pagination |-> [page |-> paginationResult.page, limit |-> paginationResult.limit,
                      totalPages |-> paginationResult.totalPages,
                      hasNext |-> paginationResult.hasNext,
                      hasPrevious |-> paginationResult.hasPrevious]]

Called(operation, email, password, ended) ==
  [op |-> operation, email |-> email, password |-> password, outcome |-> ended]

\* createUser(userData): UserQuery.create returns result.insertId
CreateUser ==
  /\ \E e \in Emails, p \in Passwords :
       IF Exists(users, e)
         THEN /\ svc' = Called("createUser", e, p,
                          Thrown(AppErrorConflict(<<"User with this email already exists">>)))
              /\ users' = users
         ELSE /\ users' = users \cup {Row(NextId(users), e, Hash(p), "2", "1")}
              /\ svc' = Called("createUser", e, p,
                          Returned(WithoutPassword(Number(NextId(users)))))
  /\ UNCHANGED <<reg, cp, login, inner, rt, pg, sd, errVars, routeVars, procVars, storeVars,
                 buildVars, authVars>>

\* getUserById(id)
GetUserById ==
  /\ \E id \in UserIds :
       LET found == FoundById(users, id) IN
         svc' = Called("getUserById", "none", "none",
                  IF found = {} THEN Thrown(AppErrorNotFound(<<"User not found">>))
                  ELSE Returned(WithoutPassword(CHOOSE u \in found : TRUE)))
  /\ UNCHANGED <<users, reg, cp, login, inner, rt, pg, sd, errVars, routeVars, procVars,
                 storeVars, buildVars, authVars>>

\* the values of UpdateUserInput tried
UpdateInputs ==
  {<<>>} \cup {[email |-> e] : e \in Emails} \cup {[isActive |-> a] : a \in {"0", "1"}}

\* updateUser(id, updateData)
UpdateUser ==
  /\ \E id \in UserIds, updateData \in UpdateInputs :
       LET found == FoundById(users, id)
           existingUser == CHOOSE u \in found : TRUE
           after == UserUpdate(users, id, updateData)
       IN IF found = {}
            THEN /\ svc' = Called("updateUser", "none", "none",
                             Thrown(AppErrorNotFound(<<"User not found">>)))
                 /\ users' = users
          ELSE IF /\ "email" \in DOMAIN updateData
                  /\ updateData.email # existingUser.email
                  /\ Exists(users, updateData.email)
            THEN /\ svc' = Called("updateUser", "none", "none",
                             Thrown(AppErrorConflict(<<"User with this email already exists">>)))
                 /\ users' = users
          ELSE /\ users' = after
               /\ svc' = Called("updateUser", "none", "none",
                           Returned(WithoutPassword(CHOOSE u \in FoundById(after, id) : TRUE)))
  /\ UNCHANGED <<reg, cp, login, inner, rt, pg, sd, errVars, routeVars, procVars, storeVars,
                 buildVars, authVars>>

\* getUsers(options)
GetUsers ==
  /\ \E page \in Optional({2}), limit \in Optional({1}), isActive \in Optional({"0", "1"}) :
       svc' = Called("getUsers", "none", "none", Returned(FindAll(users, page, limit, isActive)))
  /\ UNCHANGED <<users, reg, cp, login, inner, rt, pg, sd, errVars, routeVars, procVars,
                 storeVars, buildVars, authVars>>

\* login(loginData)
Login ==
  /\ \E e \in Emails, p \in Passwords :
       LET found == FoundByEmail(users, e)
           user == CHOOSE u \in found : TRUE
       IN svc' = Called("login", e, p,
            IF found = {}
              THEN Thrown(AppErrorUnauthorized(<<"Invalid email or password">>))
            ELSE IF Falsy(user.isActive)
              THEN Thrown(AppErrorUnauthorized(<<"Account is deactivated">>))
            ELSE IF user.password # Hash(p)
              THEN Thrown(AppErrorUnauthorized(<<"Invalid email or password">>))
            ELSE Returned([user |-> WithoutPassword(user), token |-> LoginToken(user)]))
  /\ UNCHANGED <<users, reg, cp, login, inner, rt, pg, sd, errVars, routeVars, procVars,
                 storeVars, buildVars, authVars>>

ServiceNext == CreateUser \/ GetUserById \/ UpdateUser \/ GetUsers \/ Login

ServiceSpec == Init /\ [][ServiceNext]_vars

\* ------------------------------------------------------- specification
\* the steps of the code and of the driver that finish once started
Step(w) ==
  \/ GetConnection(w)
  \/ ExecuteRun(w)
  \/ ExecuteDone(w)
  \/ TxBegin(w)
  \/ BeginDone(w)
  \/ TxStmtDone(w)
  \/ CommitDone(w)
  \/ RollbackDone(w)
  \/ HealthPing(w)
  \/ PingDone(w)

\* the steps of the caller: issuing a call, and the callback it supplied
CallerStep(w) ==
  \/ ExecuteCall(w)
  \/ ExecuteTransactionCall(w)
  \/ WithTransactionCall(w)
  \/ HealthCheckCall(w)
  \/ CallbackStmt(w)
  \/ CallbackThrow(w)
  \/ CallbackReturn(w)

Next ==
  \/ Connect
  \/ \E w \in Workers : Step(w)
  \/ \E w \in Workers : CallerStep(w)

Spec == Init /\ [][Next]_vars

\* every driver call settles and every code segment runs; nothing obliges a
\* caller to issue a call or its callback to finish
FairSpec == Spec /\ \A w \in Workers : WF_vars(Step(w))

\* the storage layer with close(): the calls of Callers run while the pool
\* is opened, ended and forgotten
CloseNext ==
  \/ Connect
  \/ CloseCall
  \/ CloseDone
  \/ \E w \in Callers : Step(w)
  \/ \E w \in Callers : GetConnectionRejected(w)
  \/ \E w \in Callers : CallerStep(w)

CloseSpec == Init /\ [][CloseNext]_vars

\* executeMultiple and execute calls on the open pool
MultiNext ==
  \/ Connect
  \/ \E w \in Workers : GetConnection(w)
  \/ \E w \in Workers : ExecuteMultipleCall(w)
  \/ \E w \in Workers : MultiRun(w)
  \/ \E w \in Workers : MultiDone(w)
  \/ \E w \in Workers : ExecuteCall(w)
  \/ \E w \in Workers : ExecuteRun(w)
  \/ \E w \in Workers : ExecuteDone(w)

MultiSpec == Init /\ [][MultiNext]_vars

\* ------------------------------------------------------- App.shutdown
\* The SIGTERM and SIGINT listeners of src/unnamed/part_003 114-122 and
\* App.shutdown (125-137) over DatabaseConnection.close (connection.ts
\* 66-77).  The listener does not await shutdown(), so a second signal
\* starts a second shutdown while the first awaits pool.end().  The driver
\* is the environment: the pool.end() that started the ending resolves or
\* rejects; a pool.end() called on a pool that is ending or has ended
\* resolves or rejects as well.  process.exit ends the process.
ShutdownLog(signal) == <<signal, "received. Shutting down gracefully...">>

\* a signal is delivered: the listener logs and calls shutdown(), which
\* runs close() up to `await this.pool.end()`; with no pool close()
\* returns and shutdown() exits with 0
Signal(i) ==
  /\ ~proc.exited /\ ~exited
  /\ sd.pc[i] = "idle" /\ \A j \in Signals : j < i => sd.pc[j] # "idle"
  /\ \E signal \in {"SIGTERM", "SIGINT"} :
       IF pool = "null"
         THEN /\ sd' = [sd EXCEPT !.pc[i] = "done", !.signal[i] = signal]
              /\ proc' = Process(TRUE, 0, Append(proc.log, ShutdownLog(signal)))
              /\ poolEnd' = poolEnd
         ELSE /\ sd' = [sd EXCEPT !.pc[i] = "end", !.signal[i] = signal, !.ends = @ + 1]
              /\ proc' = Process(FALSE, 0, Append(proc.log, ShutdownLog(signal)))
              /\ poolEnd' = IF poolEnd = "no" THEN "ending" ELSE poolEnd
  /\ UNCHANGED <<poolVars, dbVars, callVars, txVars, endVars, grantVars, foreignUse,
                 closePc, closeResult, calledAfterClose, buildVars, authVars, errVars,
                 routeVars, userVars, inner, rt, pg, svc>>

\* the pool.end() awaited by shutdown call i settles.  Resolved: close()
\* forgets the pool and returns, shutdown() exits with 0.  Rejected:
\* close() throws 'Failed to close database connection', shutdown() logs
\* and exits with 1.
EndSettle(i) ==
  /\ ~proc.exited /\ ~exited
  /\ sd.pc[i] = "end"
  /\ sd' = [sd EXCEPT !.pc[i] = "done"]
  /\ LET first == \A j \in Signals : j < i => sd.pc[j] # "end" /\ poolEnd = "ending" IN
       \/ /\ pool' = "null"
          /\ poolEnd' = IF first THEN "ended" ELSE poolEnd
          /\ proc' = Process(TRUE, 0, Append(proc.log, <<"Database connection closed">>))
       \/ /\ pool' = pool
          /\ poolEnd' = IF first THEN "failed" ELSE poolEnd
          /\ proc' = Process(TRUE, 1, Append(proc.log, <<"Error during shutdown:">>))
  /\ UNCHANGED <<exited, created, idle, owner, queue, dbVars, callVars, txVars, endVars,
                 grantVars, foreignUse, closePc, closeResult, calledAfterClose, buildVars,
                 authVars, errVars, routeVars, userVars, inner, rt, pg, svc>>

\* the application: connect(), execute calls of the callers, and signals
ShutdownNext ==
  \/ ~proc.exited /\ Connect
  \/ \E i \in Signals : Signal(i)
  \/ \E i \in Signals : EndSettle(i)
  \/ \E w \in Callers : ~proc.exited /\ ExecuteCall(w)
  \/ \E w \in Callers : ~proc.exited /\ GetConnection(w)
  \/ \E w \in Callers : ~proc.exited /\ GetConnectionRejected(w)
  \/ \E w \in Callers : ~proc.exited /\ ExecuteRun(w)
  \/ \E w \in Callers : ~proc.exited /\ ExecuteDone(w)

ShutdownSpec == Init /\ [][ShutdownNext]_vars

\* ------------------------------------------------------------ properties
CheckedOut == {c \in ConnIds : owner[c] # 0}
Holding(w) == conn[w] # 0
PoolCall(w) == op[w] \in {"execute", "executeTransaction", "withTransaction"}
Quiescent == \A w \in Workers : pc[w] \in {"idle", "done"}
Failed(w) == pc[w] = "done" /\ outcome[w].status = "thrown"
Succeeded(w) == pc[w] = "done" /\ outcome[w].status = "returned"
Effects(w) == {<<w, i>> : i \in 1..nstmts[w]}
HasEntry(w, m) == \E k \in DOMAIN log[w] : log[w][k].msg = Msg(w, m)

\* C1: a call of execute, executeTransaction or withTransaction releases
\* the connection it obtained exactly once, whether it returns or throws;
\* once all calls have finished every connection they checked out is free
\* again (checkouts = checkins).
C1_ReleaseGuarantee ==
  /\ \A w \in Workers : PoolCall(w) =>
       /\ checkouts[w] <= 1
       /\ checkins[w] <= checkouts[w]
       /\ pc[w] = "done" => checkins[w] = checkouts[w]
       /\ pc[w] = "done" => \A c \in ConnIds : owner[c] # w
  /\ Quiescent =>
       \A c \in created :
         \/ c \in idle /\ owner[c] = 0
         \/ owner[c] = Probe
         \/ owner[c] \in Workers /\ op[owner[c]] = "healthCheck"

\* two calls have finished, one by returning and one by throwing after a
\* failed rollback, and both released their connection
C1_Witness ==
  /\ Quiescent
  /\ \E w \in Workers : Succeeded(w) /\ PoolCall(w) /\ checkins[w] = 1
  /\ \E w \in Workers : Failed(w) /\ PoolCall(w) /\ checkins[w] = 1 /\ rbErr[w] # NoError

\* C2: after an executeTransaction call has thrown none of its statements'
\* effects is in storage, and after it has returned all of them are; never
\* a strict non-empty subset.
C2_Atomicity ==
  \A w \in Workers : (op[w] = "executeTransaction" /\ pc[w] = "done") =>
    /\ Failed(w) => Effects(w) \cap committed = {}
    /\ Succeeded(w) => Effects(w) \subseteq committed

\* C3: when release() runs in executeTransaction or withTransaction the
\* transaction begun on the connection has been committed or rolled back.
C3_NoReleaseMidTransaction ==
  \A w \in Workers : IsTx(op[w]) => ~openAtRelease[w]

\* C4: a transaction goes Idle -> Active -> exactly one of Committed and
\* RolledBack; commit is issued only after begin succeeded and every
\* statement (or the callback) completed without error; rollback is issued
\* only after an error and never once commit has succeeded; the call
\* returns normally exactly when the transaction is Committed.
C4_StateMachine ==
  /\ [](\A w \in Workers : IsTx(op[w]) =>
          /\ pc[w] = "commit" =>
               /\ tx[w] = "Active" /\ origErr[w] = NoError
               /\ Holding(w) /\ inTx[conn[w]]
               /\ op[w] = "executeTransaction" => Len(results[w]) = nstmts[w]
          /\ pc[w] = "rollback" => (origErr[w] # NoError /\ tx[w] = "RolledBack")
          /\ pc[w] = "done" => (outcome[w].status = "returned" <=> tx[w] = "Committed")
          /\ (pc[w] = "done" /\ checkouts[w] > 0) => tx[w] \in {"Committed", "RolledBack"})
  /\ [][\A w \in Workers : tx'[w] # tx[w] =>
          <<tx[w], tx'[w]>> \in {<<"Idle", "Active">>, <<"Active", "Committed">>,
                                 <<"Active", "RolledBack">>}]_vars
  /\ [][\A w \in Workers : tx[w] = "Committed" => pc'[w] # "rollback"]_vars

\* one transaction has ended Committed and another RolledBack after its
\* commit failed
C4_Witness ==
  \E v, w \in Workers :
    /\ Succeeded(v) /\ tx[v] = "Committed" /\ IsTx(op[v])
    /\ Failed(w) /\ tx[w] = "RolledBack" /\ origErr[w] = DriverError("E_commit")

\* C5: on an error of begin, a statement, the callback or commit, rollback
\* is issued on the call's own connection before the error leaves, no
\* further statement is executed, and the error that leaves is an AppError
\* DATABASE_ERROR / 500 with message 'Transaction failed: ' + the original
\* message.
C5_RollbackThenTransactionFailed ==
  \A w \in Workers : IsTx(op[w]) =>
    /\ pc[w] = "rollback" =>
         /\ Holding(w) /\ rollbackOn[w] = conn[w] /\ owner[conn[w]] = w
         /\ outcome[w] = Pending
    /\ origErr[w] # NoError =>
         /\ pc[w] \in {"rollback", "done"}
         /\ origErr[w].message \in {<<"E_begin">>, <<"E_stmt">>, <<"E_callback">>, <<"E_commit">>}
         /\ origErr[w].message = <<"E_stmt">> => Len(issued[w]) = Len(results[w]) + 1
         /\ origErr[w].message = <<"E_begin">> => issued[w] = <<>>
    /\ (pc[w] = "done" /\ checkouts[w] > 0) =>
         (outcome[w].status = "thrown" <=> origErr[w] # NoError)
    /\ (pc[w] = "done" /\ origErr[w] # NoError) =>
         /\ HasEntry(w, "Transaction rolled back due to error")
              \/ HasEntry(w, "Failed to rollback transaction")
         /\ outcome[w] = Thrown([kind |-> "AppError", type |-> "DATABASE_ERROR",
                                statusCode |-> 500,
                                message |-> <<"Transaction failed: ">> \o origErr[w].message])

\* an executeTransaction call has thrown after its first statement failed;
\* the second statement was never issued
C5_Witness ==
  \E w \in Workers :
    /\ Failed(w) /\ op[w] = "executeTransaction"
    /\ origErr[w] = DriverError("E_stmt")
    /\ issued[w] = <<1>> /\ Len(issued[w]) < nstmts[w]

\* C6: when rollback throws R after the failure E, the error that leaves
\* carries E's message and not R's, the rollback failure is logged in an
\* entry of its own next to the entry of the failed transaction, and the
\* connection is released.
C6_RollbackFailureDoesNotMask ==
  \A w \in Workers : (IsTx(op[w]) /\ pc[w] = "done" /\ rbErr[w] # NoError) =>
    /\ outcome[w].status = "thrown"
    /\ outcome[w].error.message = <<"Transaction failed: ">> \o origErr[w].message
    /\ \A k \in DOMAIN outcome[w].error.message :
         outcome[w].error.message[k] # rbErr[w].message[1]
    /\ \E j, k \in DOMAIN log[w] :
         /\ j < k
         /\ log[w][j] = LogEntry("error", Msg(w, "Failed to rollback transaction"),
                                 origErr[w], rbErr[w])
         /\ log[w][k] = LogEntry("error", Msg(w, "Transaction failed"), origErr[w], NoError)
    /\ checkins[w] = 1 /\ \A c \in ConnIds : owner[c] # w

\* a statement failed and the rollback after it failed as well
C6_Witness ==
  \E w \in Workers :
    /\ pc[w] = "done" /\ IsTx(op[w])
    /\ origErr[w] = DriverError("E_stmt") /\ rbErr[w] = DriverError("E_rollback")

\* C7: executeTransaction runs its statements in submission order, one at
\* a time, on the one connection it checked out; on success there is one
\* result per statement and result i belongs to statement i.
C7_SubmissionOrder ==
  \A w \in Workers : op[w] = "executeTransaction" =>
    /\ \A i \in DOMAIN issued[w] : issued[w][i] = i
    /\ \A i \in DOMAIN results[w] : results[w][i] = i
    /\ Len(issued[w]) <= nstmts[w]
    /\ Len(results[w]) <= Len(issued[w]) /\ Len(issued[w]) <= Len(results[w]) + 1
    /\ pc[w] = "stmt" => (Len(issued[w]) = Len(results[w]) + 1 /\ Holding(w)
                           /\ owner[conn[w]] = w)
    /\ checkouts[w] <= 1 /\ ~foreignUse
    /\ Succeeded(w) => Len(results[w]) = nstmts[w]

\* a transaction of at least two statements has returned its results
C7_Witness ==
  \E w \in Workers :
    /\ Succeeded(w) /\ op[w] = "executeTransaction"
    /\ Len(results[w]) = nstmts[w] /\ nstmts[w] >= 2

\* C8: never more than MaxSize connections are checked out, and the pool
\* never holds more than MaxSize connections, whatever the interleaving.
C8_PoolBound ==
  /\ Cardinality(CheckedOut) <= MaxSize
  /\ Cardinality(created) <= MaxSize
  /\ CheckedOut \subseteq created
  /\ idle \subseteq created

\* the pool is saturated and a checkout is waiting
C8_Witness ==
  /\ Cardinality(CheckedOut) = MaxSize
  /\ idle = {}
  /\ \E w \in Workers : pc[w] = "waiting" /\ queue # <<>>

\* C9: a checkout issued while every connection is held ends after the
\* acquire timeout: it does not wait for ever.
C9_BoundedAcquisitionWait ==
  \A w \in Workers :
    (pc[w] = "waiting") ~> (pc[w] = "acquired" \/ outcome[w].status = "thrown")

\* C10: a connection is owned by at most one call at a time, every driver
\* call runs on a connection its caller has checked out, and no call keeps
\* a connection it has released.
C10_ExclusiveOwnership ==
  /\ \A v, w \in Workers : (v # w /\ Holding(v)) => conn[v] # conn[w]
  /\ \A w \in Workers : Holding(w) => (owner[conn[w]] = w /\ conn[w] \notin idle)
  /\ \A w \in Workers : pc[w] = "done" => (~Holding(w) /\ \A c \in ConnIds : owner[c] # w
                                             \/ op[w] = "healthCheck")
  /\ \A c \in idle : owner[c] = 0
  /\ ~foreignUse

\* a connection released by one call is in use by the next
C10_Witness ==
  \E v, w \in Workers :
    /\ v # w /\ pc[v] = "done" /\ checkins[v] = 1
    /\ Holding(w) /\ pc[w] \in {"begin", "stmt", "callback", "commit", "rollback", "ping"}
    /\ Cardinality(created) = 1

\* C11: the pool's own probes release (or discard) the connection they
\* obtained on every exit path, also when ping() throws: while the process
\* runs no connection stays with the probe of connect(), and once a
\* healthCheck / checkConnection call has ended it holds no connection.
C11_NoProbeLeak ==
  /\ ~exited => \A c \in ConnIds : owner[c] # Probe
  /\ \A w \in Workers : (op[w] = "healthCheck" /\ pc[w] = "done") =>
       /\ checkins[w] = checkouts[w]
       /\ \A c \in ConnIds : owner[c] # w

\* C12: once a close() has completed the pool is forgotten, and a call of
\* execute, executeTransaction or withTransaction issued after it fails at
\* getPool() with the error of a pool that is not there (DATABASE_ERROR,
\* 500, 'Database pool not initialized'), without a checkout and without a
\* statement; close() on a pool that is not there changes nothing and does
\* not throw.
C12_ClosedPoolRejectsCheckout ==
  /\ [](/\ poolEnd = "ended" => (pool = "null" /\ closeResult \in {"closed", "nothing"})
        /\ \A w \in Workers : (calledAfterClose[w] /\ PoolCall(w)) =>
             /\ pc[w] = "done" /\ outcome[w].status = "thrown"
             /\ outcome[w].error.kind = "AppError"
             /\ outcome[w].error.type = "DATABASE_ERROR"
             /\ outcome[w].error.statusCode = 500
             /\ outcome[w].error.message[Len(outcome[w].error.message)]
                  = "Database pool not initialized"
             /\ issued[w] = <<>> /\ checkouts[w] = 0 /\ tx[w] = "Idle")
  /\ [][(pool = "null" /\ closeResult' # closeResult) =>
          /\ closeResult' = "nothing"
          /\ UNCHANGED <<poolVars, dbVars, grantVars, poolEnd, closePc>>]_vars

\* after a completed close() a call of execute has failed, and a second
\* close() has returned without doing anything
C12_Witness ==
  /\ poolEnd = "ended" /\ closeResult = "nothing"
  /\ \E w \in Workers : calledAfterClose[w] /\ op[w] = "execute" /\ Failed(w)

\* C13: healthCheck never throws; whatever the state of the pool it returns
\* 'healthy' exactly when a connection was borrowed and its ping succeeded,
\* else 'unhealthy'; GET /health answers 200 for 'healthy' and 503 for
\* 'unhealthy'.
C13_HealthCheckNeverThrows ==
  \A w \in Workers : op[w] = "healthCheck" =>
    /\ outcome[w].status # "thrown"
    /\ pc[w] = "done" =>
         /\ outcome[w].status = "returned"
         /\ outcome[w].value \in {"healthy", "unhealthy"}
         /\ outcome[w].value = "healthy" <=>
              (checkouts[w] = 1 /\ checkins[w] = 1 /\ log[w] = <<>>)
         /\ HealthResponse(outcome[w].value).statusCode =
              (IF checkouts[w] = 1 /\ log[w] = <<>> THEN 200 ELSE 503)
         /\ HealthResponse(outcome[w].value).status = outcome[w].value

\* a healthCheck issued after close() has reported unhealthy (503)
C13_Witness ==
  \E w \in Workers :
    /\ op[w] = "healthCheck" /\ pc[w] = "done" /\ calledAfterClose[w]
    /\ HealthResponse(outcome[w].value).statusCode = 503

\* C14: execute sends its statement to the driver at most once; when the
\* driver raises the call throws an AppError DATABASE_ERROR / 500 whose
\* message carries the driver's message, and when the driver succeeds it
\* returns the rows; there is no second attempt.
C14_ExecuteOnce ==
  \A w \in Workers : op[w] = "execute" =>
    /\ Len(issued[w]) <= 1 /\ checkouts[w] <= 1
    /\ Failed(w) =>
         /\ origErr[w] # NoError /\ results[w] = <<>>
         /\ outcome[w].error.kind = "AppError"
         /\ outcome[w].error.type = "DATABASE_ERROR"
         /\ outcome[w].error.statusCode = 500
         /\ outcome[w].error.message = <<"Query execution failed: ">> \o origErr[w].message
         /\ Len(outcome[w].error.message) = 2
    /\ Succeeded(w) =>
         /\ issued[w] = <<1>> /\ results[w] = <<1>> /\ outcome[w].value = "rows"
         /\ origErr[w] = NoError

\* the driver has rejected the statement of an execute call, which has
\* thrown after one attempt
C14_Witness ==
  \E w \in Workers :
    /\ op[w] = "execute" /\ Failed(w)
    /\ origErr[w] = DriverError("E_stmt") /\ issued[w] = <<1>>

\* the tokens of a statement text after its WHERE
WhereClause(q) ==
  LET k == CHOOSE i \in DOMAIN q : q[i] = "WHERE" IN SubSeq(q, k + 1, Len(q))
Mutates(q) == q[1] \in {"UPDATE", "DELETE FROM"}
Unconditional(o) ==
  /\ o.type \in {"update", "delete"}
  /\ (Missing(o.conditions) \/ Len(o.conditions) = 0)
CountOf(q, t) == Cardinality({i \in DOMAIN q : q[i] = t})

\* C15: simpleTransaction hands no UPDATE or DELETE with an empty WHERE
\* clause to executeTransaction, and an operation list holding an update or
\* delete whose conditions are absent or empty is rejected (thrown) with
\* nothing handed over.
C15_NoUnconditionalMutation ==
  /\ submitted # "none" =>
       \A i \in DOMAIN submitted :
         Mutates(submitted[i].query) => WhereClause(submitted[i].query) # <<>>
  /\ (stOutcome # Pending /\ \E i \in DOMAIN operations : Unconditional(operations[i])) =>
       (stOutcome.status = "thrown" /\ submitted = "none")

\* C16: one statement per operation, in operation order; as many '?' as
\* parameters; the parameters are the data values in field order followed
\* by the condition values in condition order; no value in the text.
C16_PositionalCompilation ==
  submitted # "none" =>
    /\ Len(submitted) = Len(operations) /\ submitted = queries
    /\ \A i \in DOMAIN submitted :
         LET q == submitted[i]
             o == operations[i]
             dataValues == IF o.type \in {"insert", "update"} THEN ObjectValues(o.data) ELSE <<>>
             condValues == IF o.type \in {"update", "delete"} THEN ObjectValues(o.conditions) ELSE <<>>
         IN /\ CountOf(q.query, "?") = Len(q.params)
            /\ q.params = dataValues \o condValues
            /\ \A k \in DOMAIN q.query : q.query[k] \notin Values
            /\ q.query[1] = (IF o.type = "insert" THEN "INSERT INTO"
                             ELSE IF o.type = "update" THEN "UPDATE" ELSE "DELETE FROM")
            /\ q.query[2] = o.table

\* an insert and an update with two fields and two conditions were compiled
C16_Witness ==
  /\ submitted # "none" /\ Len(submitted) = 2
  /\ operations[1].type = "insert" /\ Len(operations[1].data) = 2
  /\ operations[2].type = "update" /\ Len(operations[2].data) = 2
  /\ Len(operations[2].conditions) = 2
  /\ Len(submitted[2].params) = 4

\* the token of the request is one jsonwebtoken signed with the secret of
\* the configuration, and not yet expired
WellSigned(t) == t.format = "jwt" /\ t.sig = <<JwtSecret, t.payload, t.iat, t.exp>>
Unexpired(t) == clock < t.exp
Unauthorized401(e, m) ==
  e = [kind |-> "AppError", type |-> "AUTHENTICATION_ERROR", statusCode |-> 401,
       message |-> <<m>>]

\* C17: authenticate answers a request without 'Bearer ' header with
\* 'Access token is required', an expired token with 'Token has expired',
\* any other verification failure with 'Invalid token', all three 401,
\* req.user unset and next called with the error only; on success req.user
\* is set from the token before next() is called, once.
C17_Authenticate ==
  stage = "authenticate" =>
    LET h == req.authorization
        t == req.authorization.token
        call == nextCalls[1]
    IN /\ Len(nextCalls) = 1
       /\ h.scheme # "Bearer" => Unauthorized401(call.arg, "Access token is required")
       /\ (h.scheme = "Bearer" /\ WellSigned(t) /\ ~Unexpired(t)) =>
            Unauthorized401(call.arg, "Token has expired")
       /\ (h.scheme = "Bearer" /\ ~WellSigned(t)) =>
            Unauthorized401(call.arg, "Invalid token")
       /\ call.arg # NoError =>
            (call.arg.statusCode = 401 /\ ~req.user.set /\ ~call.user.set)
       /\ (h.scheme = "Bearer" /\ WellSigned(t) /\ Unexpired(t)) =>
            /\ call.arg = NoError
            /\ req.user.set /\ call.user = req.user
            /\ req.user.email = t.payload.email /\ req.user.role = t.payload.role
            /\ req.user.id \in {t.payload.id, t.payload.userId}
            /\ t.payload.id # "undefined" => req.user.id = t.payload.id

\* an expired token was presented to authenticate
C17_Witness ==
  /\ stage = "authenticate" /\ req.authorization.scheme = "Bearer"
  /\ req.authorization.token = token /\ clock >= token.exp
  /\ nextCalls[1].arg.message = <<"Token has expired">>

\* C18: authorize rejects a request without identity with 401; it rejects
\* an identity with 403 exactly when roles were given and the identity's
\* role (none counting as no match) is not one of them; with no roles
\* given every identity passes.
C18_Authorize ==
  stage = "authorize" =>
    LET call == nextCalls[Len(nextCalls)] IN
    /\ ~req.user.set => Unauthorized401(call.arg, "Authentication required")
    /\ req.user.set =>
         /\ call.arg = [kind |-> "AppError", type |-> "AUTHORIZATION_ERROR",
                        statusCode |-> 403, message |-> <<"Insufficient permissions">>]
              <=> (roles # {} /\ req.user.role \notin roles)
         /\ call.arg.statusCode \in {0, 403}
         /\ call.arg.statusCode = 0 => call.arg = NoError
    /\ (req.user.set /\ roles = {}) => call.arg = NoError

\* an identity without a role was rejected where a role is required
C18_Witness ==
  /\ stage = "authorize" /\ req.user.set /\ req.user.role = "undefined"
  /\ roles = {"admin"}
  /\ nextCalls[Len(nextCalls)].arg.statusCode = 403

\* C19: optionalAuth calls next() once and without an error whatever the
\* header; req.user is set exactly when a bearer token was present and
\* verified.
C19_OptionalAuth ==
  stage = "optionalAuth" =>
    /\ Len(nextCalls) = 1
    /\ nextCalls[1].arg = NoError
    /\ nextCalls[1].user = req.user
    /\ req.user.set <=> /\ req.authorization.scheme = "Bearer"
                        /\ WellSigned(req.authorization.token)
                        /\ Unexpired(req.authorization.token)

\* an expired token was presented to optionalAuth, which went on without
\* an identity
C19_Witness ==
  /\ stage = "optionalAuth" /\ req.authorization.scheme = "Bearer"
  /\ req.authorization.token = token /\ clock >= token.exp
  /\ ~req.user.set /\ nextCalls[1].arg = NoError

\* C20: a token made by generateToken for a claim set {id, email, role}
\* and presented to authenticate before its expiry gives back exactly these
\* claims; presented from its expiry on it is answered 'Token has
\* expired'; with its signature altered it is answered 'Invalid token';
\* nothing but a token issued with the secret is accepted.
C20_TokenLifecycle ==
  (stage = "authenticate" /\ req.authorization.scheme = "Bearer") =>
    LET t == req.authorization.token
        call == nextCalls[1]
    IN /\ (t = token /\ token.payload \in ClaimSets /\ clock < token.exp) =>
            /\ call.arg = NoError
            /\ req.user = [set |-> TRUE, id |-> token.payload.id,
                           email |-> token.payload.email, role |-> token.payload.role]
       /\ (t = token /\ clock >= token.exp) =>
            Unauthorized401(call.arg, "Token has expired")
       /\ (t.format = "jwt" /\ t.sig # token.sig) =>
            Unauthorized401(call.arg, "Invalid token")
       /\ call.arg = NoError => (token # NoToken /\ t = token /\ token.exp > token.iat)

\* a token was accepted some time after it was issued and before it expired
C20_Witness ==
  /\ stage = "authenticate" /\ req.authorization.scheme = "Bearer"
  /\ req.authorization.token = token /\ token.payload \in ClaimSets
  /\ clock > token.iat /\ clock < token.exp
  /\ nextCalls[1].arg = NoError /\ req.user.id = token.payload.id

\* ------------------------------------------------------------------ C22
\* the responses sent by globalErrorHandler for the error it was given
Answered == handlerResult = "returned"
Answer == sent[Len(sent)]
IsCredentialError(v) == v.name \in {"JsonWebTokenError", "TokenExpiredError"}
IsDuplicateKey(v) == v.code = Code("string", "ER_DUP_ENTRY")
IsDriverCode(v) == v.code.typeof = "string" /\ StartsWithER(v.code)
Generic500(a) ==
  /\ a.status = 500 /\ a.body.type = "INTERNAL_SERVER_ERROR"
  /\ a.body.message = <<"Something went wrong!">>

\* C22 as stated: globalErrorHandler maps an error by the priority order
\* (1) an AppError keeps its own type and status, (2) a driver
\* duplicate-key code gives Conflict/409, (3) any other driver error code
\* gives StorageError/500, (4) a malformed or expired credential error
\* gives Authentication/401, (5) anything else gives Internal/500 with a
\* generic message; the earliest matching rule decides.
C22_ClassifierPriority ==
  Answered =>
    LET v == raised.error
        a == Answer
    IN IF v.kind = "AppError" THEN a.status = v.statusCode /\ a.body.type = v.type
       ELSE IF IsDuplicateKey(v) THEN a.status = 409 /\ a.body.type = "DUPLICATE_ERROR"
       ELSE IF IsDriverCode(v) THEN a.status = 500 /\ a.body.type = "DATABASE_ERROR"
       ELSE IF IsCredentialError(v)
         THEN a.status = 401 /\ a.body.type = "AUTHENTICATION_ERROR"
       ELSE Generic500(a)

\* C22 as amended: every answer of globalErrorHandler follows the priority
\* order (1) an AppError keeps its own type and status, (2) an error named
\* ValidationError gives ValidationFailed/422 and one named CastError
\* BadRequest/400, (3) a malformed or expired credential error gives
\* Authentication/401, (4) a driver duplicate-key code gives Conflict/409,
\* (5) any other driver error code gives StorageError/500, (6) anything
\* else gives Internal/500 with a generic message; the earliest matching
\* rule decides.
C22_ClassifierPriorityByName ==
  Answered =>
    LET v == raised.error
        a == Answer
    IN IF v.kind = "AppError" THEN a.status = v.statusCode /\ a.body.type = v.type
       ELSE IF v.name = "ValidationError"
         THEN a.status = 422 /\ a.body.type = "VALIDATION_ERROR"
       ELSE IF v.name = "CastError"
         THEN a.status = 400 /\ a.body.type = "BAD_REQUEST_ERROR"
       ELSE IF IsCredentialError(v)
         THEN a.status = 401 /\ a.body.type = "AUTHENTICATION_ERROR"
       ELSE IF IsDuplicateKey(v) THEN a.status = 409 /\ a.body.type = "DUPLICATE_ERROR"
       ELSE IF IsDriverCode(v) THEN a.status = 500 /\ a.body.type = "DATABASE_ERROR"
       ELSE Generic500(a)

\* an error that is a credential error by name and a duplicate key by code
\* has been answered with 401
C22_Witness ==
  /\ Answered
  /\ IsCredentialError(raised.error) /\ IsDuplicateKey(raised.error)
  /\ Answer.status = 401

\* ------------------------------------------------------------------ C23
\* C23: globalErrorHandler never throws: whatever value it is given (an
\* AppError, a plain Error, an object whose code is not a string, an object
\* without name or message, null, undefined) it completes and sends exactly
\* one failure envelope.
C23_ClassifierNeverThrows ==
  /\ handlerResult # "thrown"
  /\ handlerResult = "returned" => Len(sent) = 1 /\ sent[1].body.success = FALSE

\* ------------------------------------------------------------------ C24
\* the parts of an envelope that carry text of the error
Texts(a) == {a.body.message[i] : i \in 1..Len(a.body.message)}
              \cup {a.body.context.errors[i] : i \in 1..Len(a.body.context.errors)}

\* C24: outside development mode no failure envelope carries a raw driver
\* message, whether the driver error reached globalErrorHandler directly or
\* wrapped by execute or by executeTransaction / withTransaction.
C24_NoDriverDetail ==
  nodeEnv # "development" =>
    \A i \in 1..Len(sent) : Texts(sent[i]) \cap DriverMessages = {}

\* ------------------------------------------------------------------ C25
\* the table of section 6, by the type of the code's ErrorType
TableStatus(type) ==
  CASE type = "VALIDATION_ERROR" -> 422
    [] type = "AUTHENTICATION_ERROR" -> 401
    [] type = "AUTHORIZATION_ERROR" -> 403
    [] type = "NOT_FOUND_ERROR" -> 404
    [] type = "DUPLICATE_ERROR" -> 409
    [] type = "DATABASE_ERROR" -> 500
    [] type = "INTERNAL_SERVER_ERROR" -> 500
    [] OTHER -> 0
InTable(type) == TableStatus(type) # 0

\* C25: every error of a kind of the table is answered with the status of
\* the table (ValidationFailed 422; Missing-, Expired- and
\* InvalidCredential 401; InsufficientPermission 403; NotFound 404;
\* Conflict 409; StorageError and Internal 500), and the HTTP status of a
\* response equals the statusCode field inside its envelope.
C25_ClassifierStability ==
  \A i \in 1..Len(sent) :
    /\ sent[i].status = sent[i].body.statusCode
    /\ InTable(sent[i].body.type) => sent[i].status = TableStatus(sent[i].body.type)
    /\ raised.error.kind = "AppError" /\ InTable(raised.error.type)
         => /\ sent[i].body.type = raised.error.type
            /\ sent[i].status = TableStatus(raised.error.type)

\* an AppError of kind Conflict has been answered with 409
C25_Witness ==
  /\ Answered
  /\ raised.error.kind = "AppError" /\ raised.error.type = "DUPLICATE_ERROR"
  /\ Answer.status = 409 /\ Answer.body.statusCode = 409

ValidatePos == CHOOSE i \in 1..Len(Chain(route)) : Chain(route)[i] = "validate"
ValidateRan == route # "none" /\ Passed >= ValidatePos
\* the rules of the declared sources that the request breaks
Broken == {<<s, k>> \in Sources \X Rules : s \in declared /\ k \in violated[s]}
SourceRank(s) == CHOOSE i \in 1..3 : SourceOrder[i] = s
SourceOf(m) == CHOOSE s \in Sources : \E k \in 1..Len(DetailMessage[s]) : DetailMessage[s][k] = m

\* C21: validate checks every declared source (body, params, query) even
\* when an earlier one has violations; with any rule broken it fails with
\* ValidationFailed (422) whose errors hold one message per broken rule,
\* body before params before query, and the handler is not invoked; with
\* no rule broken it calls next() without an error.  Three independent
\* broken rules give exactly three messages.
C21_ValidationCompleteness ==
  /\ Broken # {} => ~handled
  /\ ValidateRan =>
       LET call == nextCalls[ValidatePos].arg
           n == Len(validationErrors)
       IN /\ n = Cardinality(Broken)
          /\ \A b \in Broken :
               Cardinality({i \in 1..n : validationErrors[i] = DetailMessage[b[1]][b[2]]}) = 1
          /\ \A i, j \in 1..n :
               i < j => SourceRank(SourceOf(validationErrors[i]))
                          <= SourceRank(SourceOf(validationErrors[j]))
          /\ IF Broken = {}
               THEN call = NoError
               ELSE /\ call.type = "VALIDATION_ERROR" /\ call.statusCode = 422
                    /\ Answered =>
                         /\ Answer.status = 422
                         /\ Answer.body.hasContext
                         /\ Answer.body.context.errors = validationErrors

\* a request that breaks one rule in each of the three sources has been
\* answered with 422 and three messages
C21_Witness ==
  /\ ValidateRan /\ Answered
  /\ \A s \in Sources : Cardinality(violated[s]) = 1 /\ s \in declared
  /\ Answer.status = 422 /\ Len(Answer.body.context.errors) = 3

\* ------------------------------------------------------------------ C28
\* the request carries no credential that authenticate accepts
LacksCredential ==
  \/ ~HasBearer(req.authorization)
  \/ Verify(req.authorization.token).error # "none"

\* C28 as stated: on every protected route the stages run in the order
\* ValidationGate, AuthGate, business logic: the AuthGate is consulted only
\* for a request that passed validation, the handler runs only after both
\* gates have passed, and a request that breaks its schema and lacks a
\* valid credential is rejected by the ValidationGate with 422.
C28_PipelineOrder ==
  Protected(route) =>
    /\ stage \in {"authenticate", "authorize"} => Broken = {}
    /\ handled => Broken = {} /\ req.user.set
    /\ Answered /\ Broken # {} /\ LacksCredential => Answer.status = 422

\* C28 as amended: on every protected route the stages run in the order
\* AuthGate (authenticate, then authorize where the route has one),
\* ValidationGate, business logic: the ValidationGate is consulted only
\* for a request that passed the AuthGate, the handler runs only after
\* both gates have passed, and a request that breaks its schema and lacks
\* a valid credential is rejected by the AuthGate with 401 before the
\* ValidationGate is consulted.
C28_AuthBeforeValidation ==
  Protected(route) =>
    /\ stage = "validate" =>
         /\ req.user.set /\ ~LacksCredential
         /\ "authorize" \in {Chain(route)[i] : i \in 1..Len(Chain(route))}
              => req.user.role = "admin"
    /\ handled => Broken = {} /\ req.user.set /\ ~LacksCredential
    /\ Answered /\ Broken # {} /\ LacksCredential =>
         /\ Answer.status = 401
         /\ validationErrors = <<>>

\* a request for a protected route that breaks its schema and has no valid
\* credential has been answered with 401
C28_Witness ==
  /\ Protected(route) /\ Answered
  /\ Broken # {} /\ LacksCredential
  /\ Answer.status = 401 /\ ~handled

C27_ConflictingInsert ==
  /\ \A u, v \in users : u.email = v.email => u = v
  /\ \A r \in Regs : reg[r].pc = "done" =>
       IF reg[r].inserted
         THEN reg[r].answer.status = 201
         ELSE reg[r].answer.status = 409 /\ reg[r].answer.type = "DUPLICATE_ERROR"

\* ------------------------------------------------------------------ C30
\* C30: once changePassword(id, currentPassword, newPassword) has returned
\* the stored hash of user id matches newPassword and, when the two differ,
\* no longer matches currentPassword, so that a following login succeeds
\* with newPassword and fails with currentPassword; with a wrong
\* currentPassword the call fails with 401 and the hash stays as it was.
C30_ChangePasswordTakesEffect ==
  cp.pc = "done" =>
    \A u \in FoundById(users, cp.id) :
      /\ cp.outcome.status = "returned" =>
           /\ u.password = Hash(cp.newPassword)
           /\ cp.newPassword # cp.currentPassword => u.password # Hash(cp.currentPassword)
           /\ login.pc = "done" /\ login.afterChange /\ login.email = u.email =>
                (login.outcome.status = "returned") = (login.password = cp.newPassword)
      /\ cp.read # Hash(cp.currentPassword) =>
           /\ cp.outcome.status = "thrown" /\ cp.outcome.error.statusCode = 401
           /\ u.password = cp.read

\* ------------------------------------------------------------------ C31
\* C31: for every request each middleware wrapped by asyncHandler either
\* passes control on once or has its failure forwarded to next(error)
\* once; when a stage fails no later non-error stage runs,
\* globalErrorHandler is invoked exactly once for the request, and exactly
\* one response is sent (unless a fatal fault ends the process first).
C31_SingleResponse ==
  /\ [](route # "none" =>
          /\ Passed <= Len(Chain(route))
          /\ \A i \in 1..(Passed - 1) : nextCalls[i].arg = NoError
          /\ Rejected =>
               /\ stage = Chain(route)[Passed]
               /\ Passed < Len(Chain(route)) => ~handled
               /\ Passed < ValidatePos => validationErrors = <<>>
          /\ ~Rejected => raised = NoRaised /\ handlerResult = "idle"
          /\ Len(sent) <= 1
          /\ handlerResult # "idle" => handlerResult = "returned" /\ Len(sent) = 1
          /\ handled /\ ~Rejected => Len(sent) = 1)
  /\ [][/\ Rejected => UNCHANGED <<stage, nextCalls, handled, validationErrors>>
        /\ Len(sent) = 1 => UNCHANGED <<sent, handlerResult>>]_vars
  /\ (stage = "received" ~> (proc.exited \/ Len(sent) = 1))

\* the controller of a route has thrown a conflict after every middleware
\* had passed, and the error handler has sent the only response
C31_Witness ==
  /\ handled /\ Rejected /\ Passed = Len(Chain(route)) /\ Passed > 1
  /\ Answered /\ Len(sent) = 1 /\ Answer.status = 409

\* ------------------------------------------------------------------ C32
\* an operation that lacks what its type requires
Invalid(o) ==
  \/ o.type = "insert" /\ Missing(o.data)
  \/ o.type = "update" /\ (Missing(o.data) \/ Missing(o.conditions))
  \/ o.type = "delete" /\ Missing(o.conditions)

\* C32: simpleTransaction validates and compiles the whole operation list
\* before it touches storage: with an invalid operation anywhere in the
\* list the call throws BadRequest (400), nothing is handed to
\* executeTransaction, no connection is checked out, no transaction begun
\* and no statement of an earlier valid operation executed.
C32_ValidateBeforeStorage ==
  (stOutcome # Pending /\ \E i \in DOMAIN operations : Invalid(operations[i])) =>
    /\ stOutcome.status = "thrown"
    /\ stOutcome.error.type = "BAD_REQUEST_ERROR" /\ stOutcome.error.statusCode = 400
    /\ submitted = "none"
    /\ \A w \in Workers : checkouts[w] = 0 /\ tx[w] = "Idle" /\ issued[w] = <<>>
    /\ committed = {}

\* a list whose first operation was compiled and whose second is invalid
\* has been refused as a whole
C32_Witness ==
  /\ Len(operations) = 2 /\ ~Invalid(operations[1]) /\ Invalid(operations[2])
  /\ stOutcome.status = "thrown" /\ Len(queries) = 1 /\ submitted = "none"

C34_NoHoldAndWait ==
  /\ \A w \in Workers :
       /\ checkouts[w] - checkins[w] <= 1
       /\ Cardinality({c \in ConnIds : owner[c] = w}) <= 1
       /\ pc[w] \in {"acquire", "waiting"} => checkouts[w] = checkins[w] /\ ~Holding(w)
  /\ \A w \in Workers :
       pc[w] = "waiting" => \E c \in created : owner[c] = 0 \/ pc[owner[c]] # "done"

\* ------------------------------------------------------------------ C35
\* C35: executeMultiple runs the queries in list order, each on its own
\* checkout that is released before the next query starts; at the first
\* failing query it throws and runs no later query, while the effects of
\* the queries that succeeded before stay visible.
C35_SequentialNotAtomic ==
  \A w \in Workers : op[w] = "executeMultiple" =>
    /\ \A i \in DOMAIN issued[w] : issued[w][i] = i
    /\ Len(issued[w]) <= nstmts[w]
    /\ \A i \in DOMAIN results[w] : results[w][i] = i /\ <<w, i>> \in committed
    /\ IF pc[w] = "stmt"
         THEN /\ checkouts[w] = Len(issued[w]) /\ checkins[w] = Len(issued[w]) - 1
              /\ Len(results[w]) = Len(issued[w]) - 1
         ELSE /\ checkins[w] = Len(issued[w])
              /\ checkouts[w] - checkins[w] = (IF pc[w] = "acquired" THEN 1 ELSE 0)
    /\ pc[w] \in {"acquire", "waiting", "acquired"} => Len(results[w]) = Len(issued[w])
    /\ Failed(w) /\ pool # "null" /\ issued[w] # <<>> =>
         /\ Len(issued[w]) = Len(results[w]) + 1
         /\ <<w, LastIssued(w)>> \notin committed
         /\ outcome[w].error = QueryExecutionFailed(DriverError("E_stmt"))
    /\ Succeeded(w) => Len(results[w]) = nstmts[w] /\ Len(issued[w]) = nstmts[w]

\* the second query of an executeMultiple call has failed: the call has
\* thrown after two checkouts and the effect of the first query is stored
C35_Witness ==
  \E w \in Workers :
    /\ op[w] = "executeMultiple" /\ Failed(w)
    /\ issued[w] = <<1, 2>> /\ results[w] = <<1>> /\ <<w, 1>> \in committed
    /\ checkouts[w] = 2 /\ checkins[w] = 2

\* ------------------------------------------------------------------ C36
\* C36: retry(fn, maxAttempts, delay) with maxAttempts >= 1 terminates
\* after calling fn at least once and at most maxAttempts times: it
\* returns the result of the first successful call and makes no further
\* call; if all maxAttempts calls fail it throws the error of the last
\* call; before attempt k+1 it waits delay*k.
C36_RetryBounded ==
  /\ [](rt.pc # "idle" /\ rt.maxAttempts >= 1 =>
          /\ rt.calls >= 1 /\ rt.calls <= rt.maxAttempts /\ rt.calls = rt.attempt
          /\ Len(rt.waits) = (IF rt.pc = "sleep" THEN rt.calls ELSE rt.calls - 1)
          /\ \A k \in DOMAIN rt.waits : rt.waits[k] = rt.delay * k
          /\ rt.pc = "done" =>
               IF rt.status = "returned"
                 THEN rt.value = rt.calls
                 ELSE /\ rt.status = "thrown"
                      /\ rt.calls = rt.maxAttempts /\ rt.error = rt.maxAttempts)
  /\ [][rt.pc = "done" => rt' = rt]_vars
  /\ (rt.pc # "idle" ~> rt.pc = "done")

\* the third call of fn succeeded after two failures and two sleeps of
\* delay and 2*delay
C36_Witness ==
  /\ rt.pc = "done" /\ rt.status = "returned" /\ rt.value = 3 /\ rt.calls = 3
  /\ rt.maxAttempts > 3 /\ rt.delay = 2 /\ rt.waits = <<2, 4>>

\* ------------------------------------------------------------------ C38
\* C38: for all integers totalCount >= 0, page, limit and maxLimit >= 1
\* the result of calculatePagination has page >= 1, 1 <= limit <= maxLimit,
\* offset = (page-1)*limit, totalPages = ceil(totalCount/limit), hasNext
\* <=> page < totalPages and hasPrevious <=> page > 1; a requested page
\* below 1 becomes 1 and a requested limit is clamped into [1, maxLimit].
C38_Pagination ==
  pg.done =>
    LET r == pg.result
        page == Default(pg.page, 1)
        limit == Default(pg.limit, 10)
        maxLimit == Default(pg.maxLimit, 100)
    IN /\ r.page >= 1 /\ r.limit >= 1 /\ r.limit <= maxLimit
       /\ r.page = (IF page < 1 THEN 1 ELSE page)
       /\ r.limit = (IF limit < 1 THEN 1 ELSE IF limit > maxLimit THEN maxLimit ELSE limit)
       /\ r.offset = (r.page - 1) * r.limit
       /\ r.totalPages * r.limit >= pg.totalCount
       /\ (r.totalPages - 1) * r.limit < pg.totalCount \/ (pg.totalCount = 0 /\ r.totalPages = 0)
       /\ r.totalPages >= 0
       /\ r.hasNext = (r.page < r.totalPages)
       /\ r.hasPrevious = (r.page > 1)

\* five rows in pages of two, page 0 and limit 3 asked for with maxLimit 2:
\* page 1 of 3 is returned
C38_Witness ==
  /\ pg.done /\ pg.totalCount = 5 /\ pg.page = <<0>> /\ pg.limit = <<3>> /\ pg.maxLimit = <<2>>
  /\ pg.result.page = 1 /\ pg.result.limit = 2 /\ pg.result.totalPages = 3
  /\ pg.result.hasNext /\ ~pg.result.hasPrevious /\ pg.result.offset = 0

\* ------------------------------------------------------------------ C37
\* C37: on SIGTERM or SIGINT the pool is closed before the process exits,
\* and the process exits with code 0 if close succeeded and with code 1 if
\* close threw, also when a second signal arrives while the first shutdown
\* is still closing the pool: the pool is ended at most once and a
\* successful close is never reported as exit code 1.
C37_GracefulShutdown ==
  /\ sd.ends <= 1
  /\ \A i \in Signals : sd.pc[i] # "idle" => (proc.exited \/ poolEnd # "no")
  /\ (proc.exited /\ sd.pc[1] # "idle") =>
       /\ poolEnd \in {"no", "ended", "failed"}
       /\ proc.exitCode = 0 <=> poolEnd \in {"no", "ended"}
       /\ proc.exitCode = 1 <=> poolEnd = "failed"
       /\ poolEnd = "ended" => pool = "null"

\* ------------------------------------------------------------------ C39
\* the objects that make up the value a call of the user service returned
ReturnedObjects ==
  LET v == svc.outcome.value IN
    IF svc.op = "login" THEN {v, v.user, v.token.payload}
    ELSE IF svc.op = "getUsers" THEN {v} \cup {v.users[i] : i \in DOMAIN v.users}
    ELSE {v}

\* the users a login with the given email and password is for
Entitled ==
  {u \in users : u.email = svc.email /\ ~Falsy(u.isActive) /\ u.password = Hash(svc.password)}

\* C39: login returns a token only if a user with the given email exists,
\* is active and the password matches, and otherwise fails with 401 and no
\* token; no value returned by createUser, getUserById, updateUser,
\* getUsers or login has a password field.
C39_LoginGatingAndConfidentiality ==
  /\ svc.op = "login" =>
       IF Entitled = {}
         THEN /\ svc.outcome.status = "thrown"
              /\ svc.outcome.error.statusCode = 401
         ELSE /\ svc.outcome.status = "returned"
              /\ \E u \in Entitled : svc.outcome.value.token = LoginToken(u)
  /\ (svc.op # "none" /\ svc.outcome.status = "returned") =>
       \A o \in ReturnedObjects : "password" \notin DOMAIN o

\* a login that returned a token while another account is deactivated
C39_Witness ==
  /\ svc.op = "login" /\ svc.outcome.status = "returned"
  /\ "token" \in DOMAIN svc.outcome.value
  /\ \E u \in users : Falsy(u.isActive)
  /\ Cardinality(users) = 2

====
